---- MODULE Spec2Model ----
(***************************************************************************)
(* State-machine model of the solana_insurance_protocol program: the       *)
(* capital pool ledger (capital_management.rs), the claims settlement      *)
(* state machine (claims.rs), the policy / registry instructions of lib.rs *)
(* and the risk scoring functions (risk_assessment.rs).                    *)
(*                                                                         *)
(* Every instruction is one atomic action.  An instruction that returns    *)
(* Err (a failed require!, a failed account constraint, a failed token     *)
(* transfer) leaves every account as it was: the host runtime discards the *)
(* writes of a failed transaction.  The outcome of the last instruction is *)
(* kept in the variable result so that properties can speak about error    *)
(* codes.                                                                  *)
(*                                                                         *)
(* Accounts are keyed by the seeds of their program-derived addresses:     *)
(* protocol_info by authority, policy and claim by (insured, protocol),    *)
(* capital_pool by pool_type, capital_provider by (owner, pool_type).      *)
(* An address that holds no account is a zeroed record with live = FALSE.  *)
(* Every token account has the same mint; each user has one token account. *)
(* Strings (names, evidence) carry no logic and are left out, except       *)
(* resolution_notes, which is "" until a resolution writes "note".         *)
(* All amounts of the model stay far below 2^64.                           *)
(***************************************************************************)
EXTENDS Integers, FiniteSets, Sequences, TLC

\* ---------------------------------------------------------------- bounds
NumUsers == 2          \* users 1..NumUsers sign instructions
NumProviders == 1      \* users 1..NumProviders deposit and withdraw capital in Spec
NumProtocols == 1      \* users 1..NumProtocols register a protocol
NumInsured == 1        \* the last NumInsured users buy policies
MaxPoolType == 1       \* pool types 0..MaxPoolType are tried
MaxTicks == 2          \* the clock advances MaxTicks times, one day each
MaxUnits == 2          \* amounts are 0..MaxUnits times AmountUnit
InitialUnits == 2      \* each user's token account starts with this many units
MaxRewardsHeld == 300  \* withdraw_capital is tried while rewards_earned <= this
WordBits == 16         \* bits of the unsigned word of SpecWord, standing for the 64 of u64

\* ------------------------------------------------------ program constants
CAPITAL_POOL_LOW_RISK == 1
CAPITAL_POOL_MEDIUM_RISK == 2
CAPITAL_POOL_HIGH_RISK == 3
CLAIM_STATUS_PENDING == 0
CLAIM_STATUS_APPROVED == 1
CLAIM_STATUS_REJECTED == 2
SECONDS_PER_DAY == 86400
BPS_DENOMINATOR == 10000
DAYS_PER_YEAR == 365
DEFAULT_RISK_SCORE == 50
CODE_RISK_WEIGHT == 30
ECONOMIC_RISK_WEIGHT == 40
OPERATIONAL_RISK_WEIGHT == 30

\* ------------------------------------------------------------ input sets
Users == 1..NumUsers
Providers == 1..NumProviders
ProtocolKeys == 1..NumProtocols
Insureds == (NumUsers - NumInsured + 1)..NumUsers
Admins == {NumUsers}               \* who signs initialize and initialize_capital_pool
NoKey == 0                         \* Pubkey::default()
PoolTypes == 1..MaxPoolType
PoolTypeInputs == 0..MaxPoolType   \* 0 is an invalid pool type
AmountUnit == 10^6
Amounts == {k * AmountUnit : k \in 0..MaxUnits}
YieldRates == {500}
Durations == {1}
Coverages == {AmountUnit}
Premiums == {410}
TvlInputs == {0}
TickSeconds == SECONDS_PER_DAY
PolicyKeys == Insureds \X ProtocolKeys   \* <<insured, protocol authority>>
ProviderKeys == Users \X PoolTypes       \* <<owner, pool_type>>

VARIABLES
    now,                 \* Clock::get().unix_timestamp
    protocol_state,      \* the ProtocolState account
    registry,            \* the ProtocolRegistry account
    protocol_info,       \* [Users -> ProtocolInfo]
    policy,              \* [PolicyKeys -> Policy]
    claim,               \* [PolicyKeys -> Claim]
    capital_pool,        \* [PoolTypes -> CapitalPool]
    capital_provider,    \* [ProviderKeys -> CapitalProvider]
    user_token,          \* [Users -> balance of the user's token account]
    pool_token_account,  \* [PoolTypes -> balance of the pool's custody account]
    treasury_token,      \* balance of the treasury token account
    result               \* the last instruction, its arguments and outcome

accounts == <<protocol_state, registry, protocol_info, policy, claim,
              capital_pool, capital_provider>>
tokens == <<user_token, pool_token_account, treasury_token>>
vars == <<now, protocol_state, registry, protocol_info, policy, claim,
          capital_pool, capital_provider, user_token, pool_token_account,
          treasury_token, result>>

\* ------------------------------------------------------- account records
ZeroProtocolState == [live |-> FALSE, authority |-> NoKey, protocol_fee |-> 0]
ZeroRegistry == [live |-> FALSE, protocol_count |-> 0]
ZeroProtocolInfo == [live |-> FALSE, authority |-> NoKey, tvl_usd |-> 0,
                     risk_score |-> 0, is_active |-> FALSE]
ZeroPolicy == [live |-> FALSE, insured |-> NoKey, protocol |-> NoKey,
               coverage_amount |-> 0, premium_amount |-> 0, start_time |-> 0,
               end_time |-> 0, is_active |-> FALSE, is_claimed |-> FALSE]
ZeroClaim == [live |-> FALSE, policy |-> <<NoKey, NoKey>>, claimant |-> NoKey,
              amount |-> 0, submitted_time |-> 0, status |-> 0,
              resolution_time |-> 0, resolver |-> NoKey, resolution_notes |-> ""]
ZeroCapitalPool == [live |-> FALSE, pool_type |-> 0, total_capital |-> 0,
                    available_capital |-> 0, reserved_capital |-> 0,
                    yield_rate_bps |-> 0, authority |-> NoKey]
ZeroCapitalProvider == [live |-> FALSE, owner |-> NoKey, capital_amount |-> 0,
                        pool |-> 0, rewards_earned |-> 0, deposit_time |-> 0]

\* ----------------------------------------------------- instruction outcome
Outcome(op, err) == [op |-> op, err |-> err]

\* An instruction that returns Err: the transaction is rolled back.
Abort(op, err) ==
    /\ result' = Outcome(op, err)
    /\ UNCHANGED <<now, accounts, tokens>>

\* The first error of a list of <<condition, error>> checks, "Ok" if none.
RECURSIVE FirstError(_)
FirstError(checks) ==
    IF checks = <<>> THEN "Ok"
    ELSE IF checks[1][1] THEN checks[1][2]
    ELSE FirstError(Tail(checks))

\* std::cmp::max
Max(a, b) == IF a >= b THEN a ELSE b

\* u64::checked_add and u64::checked_sub: NoneU64 stands for None, on which
\* unwrap() panics.  The sums of the model stay below 2^64.
NoneU64 == 0 - 1
checked_add(a, b) == IF a = NoneU64 \/ b = NoneU64 THEN NoneU64 ELSE a + b
checked_sub(a, b) == IF a = NoneU64 \/ b = NoneU64 \/ a < b THEN NoneU64 ELSE a - b

\* token::transfer(ctx, amount)?: the token program refuses a transfer of more
\* than the source account holds.
token_transfer_err(balance, amount) ==
    IF balance < amount THEN "InsufficientFunds" ELSE "Ok"

Init ==
    /\ now = 0
    /\ protocol_state = ZeroProtocolState
    /\ registry = ZeroRegistry
    /\ protocol_info = [u \in ProtocolKeys |-> ZeroProtocolInfo]
    /\ policy = [k \in PolicyKeys |-> ZeroPolicy]
    /\ claim = [k \in PolicyKeys |-> ZeroClaim]
    /\ capital_pool = [t \in PoolTypes |-> ZeroCapitalPool]
    /\ capital_provider = [k \in ProviderKeys |-> ZeroCapitalProvider]
    /\ user_token = [u \in Users |-> InitialUnits * AmountUnit]
    /\ pool_token_account = [t \in PoolTypes |-> 0]
    /\ treasury_token = 0
    /\ result = Outcome("none", "Ok")

\* The clock moves forward between instructions.
AdvanceClock ==
    /\ now < MaxTicks * TickSeconds
    /\ now' = now + TickSeconds
    /\ result' = Outcome("advance_clock", "Ok")
    /\ UNCHANGED <<accounts, tokens>>

\* ---------------------------------------------------------------- lib.rs
initialize_err(authority) ==
    FirstError(<< <<protocol_state.live \/ registry.live, "AccountAlreadyInUse">> >>)

initialize(authority) ==
    LET err == initialize_err(authority)
    IN  IF err # "Ok" THEN Abort("initialize", err)
        ELSE /\ protocol_state' = [live |-> TRUE, authority |-> authority,
                                   protocol_fee |-> 0]
             /\ registry' = [live |-> TRUE, protocol_count |-> 0]
             /\ result' = Outcome("initialize", "Ok")
             /\ UNCHANGED <<now, protocol_info, policy, claim, capital_pool,
                            capital_provider, tokens>>

\* ProtocolInfo taken with init_if_needed: an existing record is accepted.
register_protocol_err_init_if_needed(authority) ==
    FirstError(<< <<~registry.live, "AccountNotInitialized">> >>)

register_protocol_err(authority) ==
    FirstError(<< <<~registry.live, "AccountNotInitialized">>,
                  <<protocol_info[authority].live, "AccountAlreadyInUse">> >>)

register_protocol(authority, tvl_usd) ==
    LET err == register_protocol_err(authority)
    IN  IF err # "Ok" THEN Abort("register_protocol", err)
        ELSE /\ protocol_info' = [protocol_info EXCEPT ![authority] =
                    [live |-> TRUE, authority |-> authority, tvl_usd |-> tvl_usd,
                     risk_score |-> DEFAULT_RISK_SCORE, is_active |-> TRUE]]
             /\ registry' = [registry EXCEPT !.protocol_count = @ + 1]
             /\ result' = Outcome("register_protocol", "Ok")
             /\ UNCHANGED <<now, protocol_state, policy, claim, capital_pool,
                            capital_provider, tokens>>

create_policy_err(insured, protocol, premium_amount) ==
    FirstError(<< <<~protocol_info[protocol].live, "AccountNotInitialized">>,
                  <<policy[<<insured, protocol>>].live, "AccountAlreadyInUse">>,
                  <<~protocol_info[protocol].is_active, "ProtocolNotActive">>,
                  <<token_transfer_err(user_token[insured], premium_amount) # "Ok",
                    token_transfer_err(user_token[insured], premium_amount)>> >>)

create_policy(insured, protocol, coverage_amount, premium_amount, duration_days) ==
    LET err == create_policy_err(insured, protocol, premium_amount)
    IN  IF err # "Ok" THEN Abort("create_policy", err)
        ELSE /\ policy' = [policy EXCEPT ![<<insured, protocol>>] =
                    [live |-> TRUE, insured |-> insured, protocol |-> protocol,
                     coverage_amount |-> coverage_amount,
                     premium_amount |-> premium_amount,
                     start_time |-> now,
                     end_time |-> now + duration_days * SECONDS_PER_DAY,
                     is_active |-> TRUE, is_claimed |-> FALSE]]
             /\ user_token' = [user_token EXCEPT ![insured] = @ - premium_amount]
             /\ treasury_token' = treasury_token + premium_amount
             /\ result' = Outcome("create_policy", "Ok")
             /\ UNCHANGED <<now, protocol_state, registry, protocol_info, claim,
                            capital_pool, capital_provider, pool_token_account>>

\* -------------------------------------------------- capital_management.rs
initialize_capital_pool_err(pool_type) ==
    FirstError(<< <<~protocol_state.live, "AccountNotInitialized">>,
                  <<pool_type \in PoolTypes /\ capital_pool[pool_type].live,
                    "AccountAlreadyInUse">>,
                  <<~(pool_type = CAPITAL_POOL_LOW_RISK \/
                      pool_type = CAPITAL_POOL_MEDIUM_RISK \/
                      pool_type = CAPITAL_POOL_HIGH_RISK), "InvalidPoolType">> >>)

initialize_capital_pool(authority, pool_type, yield_rate_bps) ==
    LET err == initialize_capital_pool_err(pool_type)
    IN  IF err # "Ok" THEN Abort("initialize_capital_pool", err)
        ELSE /\ capital_pool' = [capital_pool EXCEPT ![pool_type] =
                    [live |-> TRUE, pool_type |-> pool_type, total_capital |-> 0,
                     available_capital |-> 0, reserved_capital |-> 0,
                     yield_rate_bps |-> yield_rate_bps, authority |-> authority]]
             /\ result' = Outcome("initialize_capital_pool", "Ok")
             /\ UNCHANGED <<now, protocol_state, registry, protocol_info, policy,
                            claim, capital_provider, tokens>>

\* The CapitalProvider record written by lines 92-98.
provide_capital_provider(owner, pool_type, amount) ==
    [live |-> TRUE, owner |-> owner, capital_amount |-> amount,
     pool |-> pool_type, rewards_earned |-> 0, deposit_time |-> now]

\* A deposit that is added to total_capital and not to available_capital.
provide_capital_pool_total_only(pool, amount) ==
    [pool EXCEPT !.total_capital = checked_add(pool.total_capital, amount)]

\* The CapitalPool record after lines 100-102.
provide_capital_pool(pool, amount) ==
    [pool EXCEPT !.total_capital = checked_add(pool.total_capital, amount),
                 !.available_capital = checked_add(pool.available_capital, amount)]

\* ProvideCapital with init_if_needed in place of init: an existing provider
\* record is accepted.
provide_capital_err_init_if_needed(owner, pool_type, amount) ==
    FirstError(<< <<~capital_pool[pool_type].live, "AccountNotInitialized">>,
                  <<provide_capital_pool(capital_pool[pool_type], amount).total_capital = NoneU64
                    \/ provide_capital_pool(capital_pool[pool_type], amount).available_capital = NoneU64,
                    "Panic">>,
                  <<token_transfer_err(user_token[owner], amount) # "Ok",
                    token_transfer_err(user_token[owner], amount)>> >>)

provide_capital_err(owner, pool_type, amount) ==
    FirstError(<< <<~capital_pool[pool_type].live, "AccountNotInitialized">>,
                  <<capital_provider[<<owner, pool_type>>].live, "AccountAlreadyInUse">>,
                  <<provide_capital_pool(capital_pool[pool_type], amount).total_capital = NoneU64
                    \/ provide_capital_pool(capital_pool[pool_type], amount).available_capital = NoneU64,
                    "Panic">>,
                  <<token_transfer_err(user_token[owner], amount) # "Ok",
                    token_transfer_err(user_token[owner], amount)>> >>)

provide_capital(owner, pool_type, amount) ==
    LET err == provide_capital_err(owner, pool_type, amount)
    IN  IF err # "Ok" THEN Abort("provide_capital", err)
        ELSE /\ capital_provider' = [capital_provider EXCEPT ![<<owner, pool_type>>] =
                    provide_capital_provider(owner, pool_type, amount)]
             /\ capital_pool' = [capital_pool EXCEPT ![pool_type] =
                    provide_capital_pool(capital_pool[pool_type], amount)]
             /\ user_token' = [user_token EXCEPT ![owner] = @ - amount]
             /\ pool_token_account' = [pool_token_account EXCEPT ![pool_type] = @ + amount]
             /\ result' = Outcome("provide_capital", "Ok")
             /\ UNCHANGED <<now, protocol_state, registry, protocol_info, policy,
                            claim, treasury_token>>

\* The yield with the days multiplied in before the division by 365.
withdraw_rewards_multiply_first(provider, pool) ==
    LET time_held == now - provider.deposit_time
        days_held == Max(time_held \div SECONDS_PER_DAY, 1)
        annual_yield == (provider.capital_amount * pool.yield_rate_bps) \div BPS_DENOMINATOR
    IN  (annual_yield * days_held) \div DAYS_PER_YEAR

\* The yield without the floor of one day on days_held.
withdraw_rewards_no_minimum(provider, pool) ==
    LET time_held == now - provider.deposit_time
        days_held == time_held \div SECONDS_PER_DAY
        annual_yield == (provider.capital_amount * pool.yield_rate_bps) \div BPS_DENOMINATOR
        daily_yield == annual_yield \div DAYS_PER_YEAR
    IN  daily_yield * days_held

\* Lines 127-133: the yield credited by one withdraw_capital call.
withdraw_rewards(provider, pool) ==
    LET time_held == now - provider.deposit_time
        days_held == Max(time_held \div SECONDS_PER_DAY, 1)
        annual_yield == (provider.capital_amount * pool.yield_rate_bps) \div BPS_DENOMINATOR
        daily_yield == annual_yield \div DAYS_PER_YEAR
    IN  daily_yield * days_held

\* Lines 138-148: the two require! checks, in the order of the code.
withdraw_capital_require(provider, pool, amount) ==
    FirstError(<< <<~(pool.available_capital >= amount), "InsufficientPoolCapital">>,
                  <<~(provider.capital_amount >= amount), "InsufficientProviderCapital">> >>)

\* A withdrawal that leaves the provider's capital_amount as it was.
withdraw_capital_provider_keeps_capital(provider, pool, amount) ==
    [provider EXCEPT
        !.rewards_earned = checked_add(provider.rewards_earned,
                                       withdraw_rewards(provider, pool))]

\* Lines 136 and 151: the provider record after a successful withdrawal, before
\* the close of lines 177-194.
withdraw_capital_provider(provider, pool, amount) ==
    [provider EXCEPT
        !.rewards_earned = checked_add(provider.rewards_earned,
                                       withdraw_rewards(provider, pool)),
        !.capital_amount = checked_sub(provider.capital_amount, amount)]

\* A withdrawal that is taken from total_capital and not from available_capital.
withdraw_capital_pool_total_only(pool, amount) ==
    [pool EXCEPT !.total_capital = checked_sub(pool.total_capital, amount)]

\* Lines 153-155.
withdraw_capital_pool(pool, amount) ==
    [pool EXCEPT !.total_capital = checked_sub(pool.total_capital, amount),
                 !.available_capital = checked_sub(pool.available_capital, amount)]

\* The outcome of withdraw_capital: account validation, the require! checks,
\* the unwrap() of the checked subtractions, the token transfer.
withdraw_capital_err(owner, pool_type, amount) ==
    LET provider == capital_provider[<<owner, pool_type>>]
        pool == capital_pool[pool_type]
    IN  IF ~pool.live \/ ~provider.live THEN "AccountNotInitialized"
        ELSE IF withdraw_capital_require(provider, pool, amount) # "Ok"
        THEN withdraw_capital_require(provider, pool, amount)
        ELSE IF \/ withdraw_capital_provider(provider, pool, amount).capital_amount = NoneU64
                \/ withdraw_capital_pool(pool, amount).total_capital = NoneU64
                \/ withdraw_capital_pool(pool, amount).available_capital = NoneU64
        THEN "Panic"
        ELSE token_transfer_err(pool_token_account[pool_type], amount)

\* A failed withdraw_capital whose credit of line 136 is kept.
withdraw_capital_failed_keeps_rewards(owner, pool_type, err) ==
    LET provider == capital_provider[<<owner, pool_type>>]
        pool == capital_pool[pool_type]
    IN  /\ result' = Outcome("withdraw_capital", err)
        /\ capital_provider' =
              IF provider.live
              THEN [capital_provider EXCEPT ![<<owner, pool_type>>].rewards_earned =
                       checked_add(@, withdraw_rewards(provider, pool))]
              ELSE capital_provider
        /\ UNCHANGED <<now, protocol_state, registry, protocol_info, policy, claim,
                       capital_pool, tokens>>

\* withdraw_capital returned Err: the writes made before the failing check
\* (line 136 credits rewards_earned before the checks) are rolled back.
withdraw_capital_failed(owner, pool_type, err) == Abort("withdraw_capital", err)

\* A withdrawal without the close of lines 177-194.
withdraw_capital_close_never(provider) == provider

\* Lines 177-194: a record whose capital_amount reached zero is closed (its
\* lamports are drained and its data zeroed, so the address holds no account).
withdraw_capital_close(provider) ==
    IF provider.capital_amount = 0 THEN ZeroCapitalProvider ELSE provider

withdraw_capital(owner, pool_type, amount) ==
    LET err == withdraw_capital_err(owner, pool_type, amount)
        provider == capital_provider[<<owner, pool_type>>]
        pool == capital_pool[pool_type]
    IN  /\ provider.rewards_earned <= MaxRewardsHeld
        /\ IF err # "Ok" THEN withdraw_capital_failed(owner, pool_type, err)
           ELSE /\ capital_provider' = [capital_provider EXCEPT ![<<owner, pool_type>>] =
                       withdraw_capital_close(withdraw_capital_provider(provider, pool, amount))]
                /\ capital_pool' = [capital_pool EXCEPT ![pool_type] =
                       withdraw_capital_pool(pool, amount)]
                /\ pool_token_account' = [pool_token_account EXCEPT ![pool_type] = @ - amount]
                /\ user_token' = [user_token EXCEPT ![owner] = @ + amount]
                /\ result' = Outcome("withdraw_capital", "Ok")
                /\ UNCHANGED <<now, protocol_state, registry, protocol_info, policy,
                               claim, treasury_token>>

\* --------------------------------------------------------------- claims.rs
\* SubmitClaim with init_if_needed in place of init: an existing claim account
\* is accepted.
SubmitClaim_err_init_if_needed(claimant, k) ==
    FirstError(<< <<~policy[k].live, "AccountNotInitialized">>,
                  <<~(policy[k].insured = claimant), "ConstraintSeeds">> >>)

\* SubmitClaim without the seeds and the constraint of the policy account.
SubmitClaim_err_unconstrained(claimant, k) ==
    FirstError(<< <<~policy[k].live, "AccountNotInitialized">>,
                  <<claim[k].live, "AccountAlreadyInUse">> >>)

\* SubmitClaim: the policy account is read, the claim account is created
\* (init), then the seeds and the constraint of the policy are checked.
SubmitClaim_err(claimant, k) ==
    FirstError(<< <<~policy[k].live, "AccountNotInitialized">>,
                  <<claim[k].live, "AccountAlreadyInUse">>,
                  <<~(policy[k].insured = claimant), "ConstraintSeeds">> >>)

\* The require! checks of submit_claim with the expiry check end_time >= now.
submit_claim_require_inclusive(pol, claimant, amount) ==
    FirstError(<< <<~pol.is_active, "PolicyNotActive">>,
                  <<~(pol.end_time >= now), "PolicyExpired">>,
                  <<~(~pol.is_claimed), "PolicyAlreadyClaimed">>,
                  <<~(claimant = pol.insured), "UnauthorizedClaim">>,
                  <<~(amount <= pol.coverage_amount), "ExcessClaimAmount">> >>)

\* The checks of submit_claim without the bound on the amount.
submit_claim_require_any_amount(pol, claimant, amount) ==
    FirstError(<< <<~pol.is_active, "PolicyNotActive">>,
                  <<~(pol.end_time > now), "PolicyExpired">>,
                  <<~(~pol.is_claimed), "PolicyAlreadyClaimed">>,
                  <<~(claimant = pol.insured), "UnauthorizedClaim">> >>)

\* Lines 47-56: the require! checks of submit_claim, in the order of the code.
submit_claim_require(pol, claimant, amount) ==
    FirstError(<< <<~pol.is_active, "PolicyNotActive">>,
                  <<~(pol.end_time > now), "PolicyExpired">>,
                  <<~(~pol.is_claimed), "PolicyAlreadyClaimed">>,
                  <<~(claimant = pol.insured), "UnauthorizedClaim">>,
                  <<~(amount <= pol.coverage_amount), "ExcessClaimAmount">> >>)

submit_claim_err(claimant, k, amount) ==
    IF SubmitClaim_err(claimant, k) # "Ok" THEN SubmitClaim_err(claimant, k)
    ELSE submit_claim_require(policy[k], claimant, amount)

\* Lines 58-68: the Claim record submit_claim writes.
submit_claim_record(claimant, k, amount) ==
    [live |-> TRUE, policy |-> k, claimant |-> claimant, amount |-> amount,
     submitted_time |-> now, status |-> CLAIM_STATUS_PENDING,
     resolution_time |-> 0, resolver |-> NoKey, resolution_notes |-> ""]

submit_claim(claimant, k, amount) ==
    LET err == submit_claim_err(claimant, k, amount)
    IN  IF err # "Ok" THEN Abort("submit_claim", err)
        ELSE /\ claim' = [claim EXCEPT ![k] = submit_claim_record(claimant, k, amount)]
             /\ result' = Outcome("submit_claim", "Ok")
             /\ UNCHANGED <<now, protocol_state, registry, protocol_info, policy,
                            capital_pool, capital_provider, tokens>>

\* ResolveClaim: every account is read, then the seeds of the policy are
\* checked against the protocol_info account that was passed.
ResolveClaim_err(k, pinfo, pool_type) ==
    FirstError(<< <<~claim[k].live \/ ~policy[k].live \/ ~protocol_info[pinfo].live
                    \/ ~capital_pool[pool_type].live, "AccountNotInitialized">>,
                  <<~(policy[k].protocol = pinfo), "ConstraintSeeds">> >>)

\* The checks of resolve_claim without the Pending check of lines 88-89.
resolve_claim_require_unguarded(resolver, pinfo, cl) ==
    FirstError(<< <<~(resolver = protocol_info[pinfo].authority), "UnauthorizedResolver">> >>)

\* The checks of resolve_claim without the resolver check of lines 82-86.
resolve_claim_require_anyone(resolver, pinfo, cl) ==
    FirstError(<< <<~(cl.status = CLAIM_STATUS_PENDING), "ClaimAlreadyResolved">> >>)

\* Lines 82-89: the two require! checks before the claim is written.
resolve_claim_require(resolver, pinfo, cl) ==
    FirstError(<< <<~(resolver = protocol_info[pinfo].authority), "UnauthorizedResolver">>,
                  <<~(cl.status = CLAIM_STATUS_PENDING), "ClaimAlreadyResolved">> >>)

\* Lines 104-108: the check of the approving branch.
resolve_claim_pool_require(pool, cl) ==
    FirstError(<< <<~(pool.available_capital >= cl.amount), "InsufficientPoolCapital">> >>)

\* A resolution recorded as Rejected whatever the decision.
resolve_claim_record_rejected(cl, resolver, approve) ==
    [cl EXCEPT !.status = CLAIM_STATUS_REJECTED,
               !.resolution_time = now,
               !.resolver = resolver,
               !.resolution_notes = "note"]

\* Lines 91-95: the claim record after a resolution.
resolve_claim_record(cl, resolver, approve) ==
    [cl EXCEPT !.status = IF approve THEN CLAIM_STATUS_APPROVED
                          ELSE CLAIM_STATUS_REJECTED,
               !.resolution_time = now,
               !.resolver = resolver,
               !.resolution_notes = "note"]

\* A resolution that marks the policy as claimed whatever the decision.
resolve_claim_policy_always(pol, approve) ==
    [pol EXCEPT !.is_claimed = TRUE]

\* An approval that also ends the policy.
resolve_claim_policy_deactivates(pol, approve) ==
    IF approve THEN [pol EXCEPT !.is_claimed = TRUE, !.is_active = FALSE] ELSE pol

\* Lines 97-99: the policy after a resolution.
resolve_claim_policy(pol, approve) ==
    IF approve THEN [pol EXCEPT !.is_claimed = TRUE] ELSE pol

\* An approval that takes the amount out of the pool and reserves nothing.
resolve_claim_pool_unreserved(pool, amount) ==
    [pool EXCEPT !.available_capital = checked_sub(pool.available_capital, amount)]

\* An approval that also takes the amount out of total_capital.
resolve_claim_pool_reduces_total(pool, amount) ==
    [pool EXCEPT !.available_capital = checked_sub(pool.available_capital, amount),
                 !.reserved_capital = checked_add(pool.reserved_capital, amount),
                 !.total_capital = checked_sub(pool.total_capital, amount)]

\* Lines 110-112: the pool after an approval.
resolve_claim_pool(pool, amount) ==
    [pool EXCEPT !.available_capital = checked_sub(pool.available_capital, amount),
                 !.reserved_capital = checked_add(pool.reserved_capital, amount)]

\* The outcome of resolve_claim: account validation, the require! checks, and
\* for an approval the pool check, the unwrap() of the checked arithmetic and
\* the token transfer.
resolve_claim_err(resolver, k, pinfo, pool_type, approve) ==
    IF ResolveClaim_err(k, pinfo, pool_type) # "Ok"
    THEN ResolveClaim_err(k, pinfo, pool_type)
    ELSE IF resolve_claim_require(resolver, pinfo, claim[k]) # "Ok"
    THEN resolve_claim_require(resolver, pinfo, claim[k])
    ELSE IF ~approve THEN "Ok"
    ELSE IF resolve_claim_pool_require(capital_pool[pool_type], claim[k]) # "Ok"
    THEN resolve_claim_pool_require(capital_pool[pool_type], claim[k])
    ELSE IF \/ resolve_claim_pool(capital_pool[pool_type], claim[k].amount).available_capital = NoneU64
            \/ resolve_claim_pool(capital_pool[pool_type], claim[k].amount).reserved_capital = NoneU64
    THEN "Panic"
    ELSE token_transfer_err(pool_token_account[pool_type], claim[k].amount)

\* A failed resolve_claim whose writes of lines 91-99 are kept when the failure
\* comes after them.
resolve_claim_failed_keeps_writes(resolver, k, approve, err) ==
    IF err \in {"InsufficientPoolCapital", "Panic", "InsufficientFunds"}
    THEN /\ result' = Outcome("resolve_claim", err)
         /\ claim' = [claim EXCEPT ![k] = resolve_claim_record(claim[k], resolver, approve)]
         /\ policy' = [policy EXCEPT ![k] = resolve_claim_policy(policy[k], approve)]
         /\ UNCHANGED <<now, protocol_state, registry, protocol_info, capital_pool,
                        capital_provider, tokens>>
    ELSE Abort("resolve_claim", err)

\* resolve_claim returned Err: the writes made before the failing check (the
\* claim is written by lines 91-95 and is_claimed by line 99 before the pool
\* check) are rolled back.
resolve_claim_failed(resolver, k, approve, err) == Abort("resolve_claim", err)

\* Lines 122-131: the payout, from the pool's custody to the insured's account.
\* An approval whose payout is sent from the claimant's own account.
resolve_claim_transfer_not_from_pool(pool_type, insured, amount) ==
    UNCHANGED <<pool_token_account, user_token>>

resolve_claim_transfer(pool_type, insured, amount) ==
    /\ pool_token_account' = [pool_token_account EXCEPT ![pool_type] = @ - amount]
    /\ user_token' = [user_token EXCEPT ![insured] = @ + amount]

resolve_claim(resolver, k, pinfo, pool_type, approve) ==
    LET err == resolve_claim_err(resolver, k, pinfo, pool_type, approve)
    IN  IF err # "Ok" THEN resolve_claim_failed(resolver, k, approve, err)
        ELSE /\ claim' = [claim EXCEPT ![k] = resolve_claim_record(claim[k], resolver, approve)]
             /\ policy' = [policy EXCEPT ![k] = resolve_claim_policy(policy[k], approve)]
             /\ IF approve
                THEN /\ capital_pool' = [capital_pool EXCEPT ![pool_type] =
                            resolve_claim_pool(capital_pool[pool_type], claim[k].amount)]
                     /\ resolve_claim_transfer(pool_type, policy[k].insured, claim[k].amount)
                ELSE UNCHANGED <<capital_pool, pool_token_account, user_token>>
             /\ result' = Outcome("resolve_claim", "Ok")
             /\ UNCHANGED <<now, protocol_state, registry, protocol_info,
                            capital_provider, treasury_token>>

Next ==
    \/ AdvanceClock
    \/ \E u \in Admins : initialize(u)
    \/ \E u \in ProtocolKeys, v \in TvlInputs : register_protocol(u, v)
    \/ \E k \in PolicyKeys, c \in Coverages, pr \in Premiums, d \in Durations :
          create_policy(k[1], k[2], c, pr, d)
    \/ \E u \in Admins, t \in PoolTypeInputs, y \in YieldRates :
          initialize_capital_pool(u, t, y)
    \/ \E u \in Providers, t \in PoolTypes, a \in Amounts : provide_capital(u, t, a)
    \/ \E u \in Providers, t \in PoolTypes, a \in Amounts : withdraw_capital(u, t, a)
    \/ \E u \in Users, k \in PolicyKeys, a \in Amounts : submit_claim(u, k, a)
    \/ \E u \in Users, k \in PolicyKeys, p \in ProtocolKeys, t \in PoolTypes,
          approve \in BOOLEAN : resolve_claim(u, k, p, t, approve)

\* The whole program, with users 1..NumProviders as capital providers.
Spec == Init /\ [][Next]_vars

\* The capital pool ledger alone, with every user a capital provider.
NextCapital ==
    \/ AdvanceClock
    \/ \E u \in Admins : initialize(u)
    \/ \E u \in Admins, t \in PoolTypeInputs, y \in YieldRates :
          initialize_capital_pool(u, t, y)
    \/ \E u \in Users, t \in PoolTypes, a \in Amounts : provide_capital(u, t, a)
    \/ \E u \in Users, t \in PoolTypes, a \in Amounts : withdraw_capital(u, t, a)

SpecCapital == Init /\ [][NextCapital]_vars

\* ------------------------------------------------ arithmetic on a word
\* The ledger arithmetic at the edge of the unsigned range.  TLC's integers
\* cannot hold 2^64, so the word of this specification has WordBits bits; the
\* operators are those of u64 with WordMax in the place of u64::MAX.
WordMax == 2^WordBits - 1

\* Amounts of SpecWord: two deposits of the larger exceed WordMax together.
WordAmounts == {0, (WordMax \div 8) * 5}

\* Yield rates of SpecWord: the product of the larger amount with the first
\* fits the word, with the second it does not.
WordYieldRates == {1, 500}

\* u64::checked_add on the word.
u64_checked_add(a, b) ==
    IF a = NoneU64 \/ b = NoneU64 \/ a + b > WordMax THEN NoneU64 ELSE a + b

\* a * b on u64, as written in lines 131 and 133: a product beyond the word
\* panics in a build with overflow checks and wraps in a build without them.
u64_mul(a, b) ==
    IF a * b <= WordMax THEN {a * b}
    ELSE {NoneU64, (a * b) % (WordMax + 1)}

\* Lines 127-133 on the word: the values rewards can take, NoneU64 for a panic.
withdraw_rewards_u64(provider, pool) ==
    LET time_held == now - provider.deposit_time
        days_held == Max(time_held \div SECONDS_PER_DAY, 1)
    IN  UNION {IF product = NoneU64 THEN {NoneU64}
               ELSE u64_mul((product \div BPS_DENOMINATOR) \div DAYS_PER_YEAR, days_held) :
               product \in u64_mul(provider.capital_amount, pool.yield_rate_bps)}

\* provide_capital on the word: lines 100-102 with the word's checked_add.
provide_capital_u64_err(owner, pool_type, amount) ==
    FirstError(<< <<~capital_pool[pool_type].live, "AccountNotInitialized">>,
                  <<capital_provider[<<owner, pool_type>>].live, "AccountAlreadyInUse">>,
                  <<u64_checked_add(capital_pool[pool_type].total_capital, amount) = NoneU64
                    \/ u64_checked_add(capital_pool[pool_type].available_capital, amount) = NoneU64,
                    "Panic">>,
                  <<token_transfer_err(user_token[owner], amount) # "Ok",
                    token_transfer_err(user_token[owner], amount)>> >>)

provide_capital_u64(owner, pool_type, amount) ==
    LET err == provide_capital_u64_err(owner, pool_type, amount)
    IN  IF err # "Ok" THEN Abort("provide_capital", err)
        ELSE /\ capital_provider' = [capital_provider EXCEPT ![<<owner, pool_type>>] =
                    provide_capital_provider(owner, pool_type, amount)]
             /\ capital_pool' = [capital_pool EXCEPT ![pool_type] =
                    [@ EXCEPT !.total_capital = u64_checked_add(@, amount),
                              !.available_capital = u64_checked_add(@, amount)]]
             /\ user_token' = [user_token EXCEPT ![owner] = @ - amount]
             /\ pool_token_account' = [pool_token_account EXCEPT ![pool_type] = @ + amount]
             /\ result' = Outcome("provide_capital", "Ok")
             /\ UNCHANGED <<now, protocol_state, registry, protocol_info, policy,
                            claim, treasury_token>>

\* withdraw_capital on the word, for one value of rewards: line 136 with the
\* word's checked_add, then the checks and the writes of lines 138-194.
withdraw_capital_u64_err(owner, pool_type, amount, rewards) ==
    LET provider == capital_provider[<<owner, pool_type>>]
        pool == capital_pool[pool_type]
    IN  IF ~pool.live \/ ~provider.live THEN "AccountNotInitialized"
        ELSE IF u64_checked_add(provider.rewards_earned, rewards) = NoneU64 THEN "Panic"
        ELSE IF withdraw_capital_require(provider, pool, amount) # "Ok"
        THEN withdraw_capital_require(provider, pool, amount)
        ELSE token_transfer_err(pool_token_account[pool_type], amount)

withdraw_capital_u64(owner, pool_type, amount) ==
    LET provider == capital_provider[<<owner, pool_type>>]
        pool == capital_pool[pool_type]
    IN  \E rewards \in withdraw_rewards_u64(provider, pool) :
          LET err == withdraw_capital_u64_err(owner, pool_type, amount, rewards)
          IN  IF err # "Ok" THEN withdraw_capital_failed(owner, pool_type, err)
              ELSE /\ capital_provider' = [capital_provider EXCEPT ![<<owner, pool_type>>] =
                          withdraw_capital_close(
                             [provider EXCEPT
                                 !.rewards_earned = u64_checked_add(@, rewards),
                                 !.capital_amount = checked_sub(@, amount)])]
                   /\ capital_pool' = [capital_pool EXCEPT ![pool_type] =
                          withdraw_capital_pool(pool, amount)]
                   /\ pool_token_account' = [pool_token_account EXCEPT ![pool_type] = @ - amount]
                   /\ user_token' = [user_token EXCEPT ![owner] = @ + amount]
                   /\ result' = Outcome("withdraw_capital", "Ok")
                   /\ UNCHANGED <<now, protocol_state, registry, protocol_info, policy,
                                  claim, treasury_token>>

\* The program is initialised, the pools exist and every user holds the largest
\* amount of the word model.
InitWord ==
    /\ now = 0
    /\ protocol_state = [live |-> TRUE, authority |-> NumUsers, protocol_fee |-> 0]
    /\ registry = [live |-> TRUE, protocol_count |-> 0]
    /\ protocol_info = [u \in ProtocolKeys |-> ZeroProtocolInfo]
    /\ policy = [k \in PolicyKeys |-> ZeroPolicy]
    /\ claim = [k \in PolicyKeys |-> ZeroClaim]
    /\ \E y \in WordYieldRates :
          capital_pool = [t \in PoolTypes |->
              [live |-> TRUE, pool_type |-> t, total_capital |-> 0,
               available_capital |-> 0, reserved_capital |-> 0,
               yield_rate_bps |-> y, authority |-> NumUsers]]
    /\ capital_provider = [k \in ProviderKeys |-> ZeroCapitalProvider]
    /\ user_token = [u \in Users |-> (WordMax \div 8) * 5]
    /\ pool_token_account = [t \in PoolTypes |-> 0]
    /\ treasury_token = 0
    /\ result = Outcome("none", "Ok")

NextWord ==
    \/ AdvanceClock
    \/ \E u \in Users, t \in PoolTypes, a \in WordAmounts : provide_capital_u64(u, t, a)
    \/ \E u \in Users, t \in PoolTypes, a \in WordAmounts : withdraw_capital_u64(u, t, a)

\* The capital pool ledger on a word of WordBits bits.
SpecWord == InitWord /\ [][NextWord]_vars

\* --------------------------------------------------- settlement of claims
\* The state after initialize by the admin, register_protocol by user 1,
\* initialize_capital_pool of every pool type and create_policy for every
\* policy key, all at time 0.
InitSettle ==
    /\ now = 0
    /\ protocol_state = [live |-> TRUE, authority |-> NumUsers, protocol_fee |-> 0]
    /\ registry = [live |-> TRUE, protocol_count |-> NumProtocols]
    /\ protocol_info = [u \in ProtocolKeys |->
          [live |-> TRUE, authority |-> u, tvl_usd |-> 0,
           risk_score |-> DEFAULT_RISK_SCORE, is_active |-> TRUE]]
    /\ policy = [k \in PolicyKeys |->
          [live |-> TRUE, insured |-> k[1], protocol |-> k[2],
           coverage_amount |-> AmountUnit, premium_amount |-> 410,
           start_time |-> 0, end_time |-> SECONDS_PER_DAY,
           is_active |-> TRUE, is_claimed |-> FALSE]]
    /\ claim = [k \in PolicyKeys |-> ZeroClaim]
    /\ capital_pool = [t \in PoolTypes |->
          [live |-> TRUE, pool_type |-> t, total_capital |-> 0,
           available_capital |-> 0, reserved_capital |-> 0,
           yield_rate_bps |-> 500, authority |-> NumUsers]]
    /\ capital_provider = [k \in ProviderKeys |-> ZeroCapitalProvider]
    /\ user_token = [u \in Users |->
          InitialUnits * AmountUnit
            - 410 * Cardinality({k \in PolicyKeys : k[1] = u})]
    /\ pool_token_account = [t \in PoolTypes |-> 0]
    /\ treasury_token = 410 * Cardinality(PolicyKeys)
    /\ result = Outcome("create_policy", "Ok")

NextSettle ==
    \/ \E u \in Users, t \in PoolTypes, a \in Amounts : provide_capital(u, t, a)
    \/ \E u \in Users, t \in PoolTypes, a \in Amounts : withdraw_capital(u, t, a)
    \/ \E u \in Users, k \in PolicyKeys, a \in Amounts : submit_claim(u, k, a)
    \/ \E u \in Users, k \in PolicyKeys, p \in ProtocolKeys, t \in PoolTypes,
          approve \in BOOLEAN : resolve_claim(u, k, p, t, approve)

\* Deposits, withdrawals and claims on policies already sold, with every user
\* a capital provider.
SpecSettle == InitSettle /\ [][NextSettle]_vars

\* ------------------------------------------------------ risk_assessment.rs
\* std::cmp::min
Min(a, b) == IF a <= b THEN a ELSE b

\* The sum of two u8 values.  The factors of a risk function are u8, so their
\* sum is computed in u8: a sum above 255 panics in a build with overflow
\* checks (NoneU64 stands for the panic) and wraps modulo 2^8 in a build
\* without them.
u8_add(a, b) ==
    IF a = NoneU64 \/ b = NoneU64 THEN {NoneU64}
    ELSE IF a + b <= 255 THEN {a + b}
    ELSE {NoneU64, (a + b) % 256}

\* (f1 + f2 + f3) / 3 in u8, added left to right.
u8_mean3(f1, f2, f3) ==
    {IF s = NoneU64 THEN NoneU64 ELSE s \div 3 :
        s \in UNION {u8_add(s12, f3) : s12 \in u8_add(f1, f2)}}

\* The set of outcomes of assess_code_risk: the value it returns, or NoneU64
\* when it panics.
assess_code_risk(audit_count, bug_bounty_size, complexity_score) ==
    LET audit_factor == 100 - Min(audit_count, 5) * 20
        bounty_factor == IF bug_bounty_size = 0 THEN 100
                         ELSE IF bug_bounty_size <= 50000 THEN 75
                         ELSE IF bug_bounty_size <= 250000 THEN 50
                         ELSE IF bug_bounty_size <= 1000000 THEN 25
                         ELSE 0
        complexity_factor == Min(complexity_score, 100)
    IN  u8_mean3(audit_factor, bounty_factor, complexity_factor)

assess_economic_risk(tvl_usd, liquidity_depth, concentration_risk) ==
    LET tvl_factor == IF tvl_usd <= 1000000 THEN 25
                      ELSE IF tvl_usd <= 10000000 THEN 50
                      ELSE IF tvl_usd <= 100000000 THEN 75
                      ELSE 100
        liquidity_factor == IF liquidity_depth <= 100000 THEN 100
                            ELSE IF liquidity_depth <= 1000000 THEN 75
                            ELSE IF liquidity_depth <= 10000000 THEN 50
                            ELSE 25
        concentration_factor == concentration_risk
    IN  u8_mean3(tvl_factor, liquidity_factor, concentration_factor)

assess_operational_risk(governance_count, admin_count, oracle_dependency) ==
    LET governance_factor == 100 - Min(governance_count, 10) * 10
        admin_factor == 100 - Min(admin_count, 5) * 20
        oracle_factor == IF oracle_dependency THEN 100 ELSE 0
    IN  u8_mean3(governance_factor, admin_factor, oracle_factor)

\* The weights taken in another order.
calculate_composite_risk_score_economic_first(code_risk, economic_risk, operational_risk) ==
    ((code_risk * ECONOMIC_RISK_WEIGHT) + (economic_risk * CODE_RISK_WEIGHT)
        + (operational_risk * OPERATIONAL_RISK_WEIGHT)) \div 100

\* The weighted sum is computed in u16: with u8 components it is at most
\* 255 * 100, below 2^16, and the quotient is at most 255.
calculate_composite_risk_score(code_risk, economic_risk, operational_risk) ==
    ((code_risk * CODE_RISK_WEIGHT) + (economic_risk * ECONOMIC_RISK_WEIGHT)
        + (operational_risk * OPERATIONAL_RISK_WEIGHT)) \div 100

calculate_premium_rate(risk_score) ==
    IF risk_score <= 25 THEN 25
    ELSE IF risk_score <= 50 THEN 50
    ELSE IF risk_score <= 75 THEN 100
    ELSE 200

\* The multiplication by the days before the division by the days of a year.
calculate_premium_amount_multiply_first(coverage_amount, premium_rate_bps, duration_days) ==
    LET annual_premium == (coverage_amount * premium_rate_bps) \div BPS_DENOMINATOR
    IN  (annual_premium * duration_days) \div DAYS_PER_YEAR

\* The products of the inputs of the model stay below 2^64.
calculate_premium_amount(coverage_amount, premium_rate_bps, duration_days) ==
    LET annual_premium == (coverage_amount * premium_rate_bps) \div BPS_DENOMINATOR
        daily_premium == annual_premium \div DAYS_PER_YEAR
    IN  daily_premium * duration_days

\* The outcome of a call of a function: what it was given and what it returned.
Returned(op, args, value) ==
    [op |-> op, err |-> IF value = NoneU64 THEN "Panic" ELSE "Ok",
     args |-> args, value |-> value]

\* Inputs of the risk functions: the values around every clamp and bracket,
\* and the ends of the u8 range.
AuditCounts == {0, 1, 4, 5, 6, 255}
BountySizes == {0, 1, 50000, 50001, 250000, 250001, 1000000, 1000001}
ComplexityScores == {0, 30, 55, 56, 100, 101, 255}
TvlValues == {0, 1000000, 1000001, 10000000, 10000001, 100000000, 100000001}
LiquidityDepths == {0, 100000, 100001, 1000000, 1000001, 10000000, 10000001}
ConcentrationRisks == {0, 30, 55, 56, 100}
GovernanceCounts == {0, 1, 9, 10, 11, 255}
AdminCounts == {0, 1, 4, 5, 6, 255}
ComponentValues == {0, 30, 100}
RiskScores == {0, 25, 26, 49, 50, 51, 75, 76, 100, 255}
PremiumRates == {calculate_premium_rate(s) : s \in RiskScores}
CoverageAmounts == {0, 9999, 10000, 1000000, 7300000}
DurationDays == {0, 1, 30, 365}

\* The parameter structs update_protocol_risk is called with.
CodeRiskParams ==
    {[audit_count |-> 5, bug_bounty_size |-> 0, complexity_score |-> 0],
     [audit_count |-> 0, bug_bounty_size |-> 0, complexity_score |-> 100],
     [audit_count |-> 2, bug_bounty_size |-> 1000001, complexity_score |-> 30]}
EconomicRiskParams ==
    {[liquidity_depth |-> 0, concentration_risk |-> 100],
     [liquidity_depth |-> 10000001, concentration_risk |-> 0]}
OperationalRiskParams ==
    {[governance_count |-> 0, admin_count |-> 0, oracle_dependency |-> TRUE],
     [governance_count |-> 10, admin_count |-> 5, oracle_dependency |-> FALSE]}
RiskTvlInputs == {0, 100000001}

call_assess_code_risk(audit_count, bug_bounty_size, complexity_score) ==
    /\ \E v \in assess_code_risk(audit_count, bug_bounty_size, complexity_score) :
          result' = Returned("assess_code_risk",
                             <<audit_count, bug_bounty_size, complexity_score>>, v)
    /\ UNCHANGED <<now, accounts, tokens>>

call_assess_economic_risk(tvl_usd, liquidity_depth, concentration_risk) ==
    /\ \E v \in assess_economic_risk(tvl_usd, liquidity_depth, concentration_risk) :
          result' = Returned("assess_economic_risk",
                             <<tvl_usd, liquidity_depth, concentration_risk>>, v)
    /\ UNCHANGED <<now, accounts, tokens>>

call_assess_operational_risk(governance_count, admin_count, oracle_dependency) ==
    /\ \E v \in assess_operational_risk(governance_count, admin_count, oracle_dependency) :
          result' = Returned("assess_operational_risk",
                             <<governance_count, admin_count, oracle_dependency>>, v)
    /\ UNCHANGED <<now, accounts, tokens>>

call_calculate_composite_risk_score(code_risk, economic_risk, operational_risk) ==
    /\ result' = Returned("calculate_composite_risk_score",
                          <<code_risk, economic_risk, operational_risk>>,
                          calculate_composite_risk_score(code_risk, economic_risk,
                                                         operational_risk))
    /\ UNCHANGED <<now, accounts, tokens>>

call_calculate_premium_rate(risk_score) ==
    /\ result' = Returned("calculate_premium_rate", <<risk_score>>,
                          calculate_premium_rate(risk_score))
    /\ UNCHANGED <<now, accounts, tokens>>

call_calculate_premium_amount(coverage_amount, premium_rate_bps, duration_days) ==
    /\ result' = Returned("calculate_premium_amount",
                          <<coverage_amount, premium_rate_bps, duration_days>>,
                          calculate_premium_amount(coverage_amount, premium_rate_bps,
                                                   duration_days))
    /\ UNCHANGED <<now, accounts, tokens>>

\* UpdateProtocolRisk: protocol_info is any ProtocolInfo account, protocol_state
\* the account at the seeds "protocol-state".
UpdateProtocolRisk_err(pinfo) ==
    FirstError(<< <<~protocol_info[pinfo].live, "AccountNotInitialized">>,
                  <<~protocol_state.live, "AccountNotInitialized">> >>)

update_protocol_risk_require(authority, info) ==
    FirstError(<< <<~(authority = info.authority \/ authority = protocol_state.authority),
                    "UnauthorizedAccess">> >>)

\* The risk scores update_protocol_risk can compute, NoneU64 when one of the
\* risk functions panics.
update_protocol_risk_score(info, code_risk_params, economic_risk_params, operational_risk_params) ==
    {IF code_risk = NoneU64 \/ economic_risk = NoneU64 \/ operational_risk = NoneU64
     THEN NoneU64
     ELSE calculate_composite_risk_score(code_risk, economic_risk, operational_risk) :
        code_risk \in assess_code_risk(code_risk_params.audit_count,
                                       code_risk_params.bug_bounty_size,
                                       code_risk_params.complexity_score),
        economic_risk \in assess_economic_risk(info.tvl_usd,
                                               economic_risk_params.liquidity_depth,
                                               economic_risk_params.concentration_risk),
        operational_risk \in assess_operational_risk(
                                 operational_risk_params.governance_count,
                                 operational_risk_params.admin_count,
                                 operational_risk_params.oracle_dependency)}

update_protocol_risk(authority, pinfo, code_risk_params, economic_risk_params, operational_risk_params) ==
    LET err == UpdateProtocolRisk_err(pinfo)
        info == protocol_info[pinfo]
    IN  IF err # "Ok" THEN Abort("update_protocol_risk", err)
        ELSE IF update_protocol_risk_require(authority, info) # "Ok"
        THEN Abort("update_protocol_risk", update_protocol_risk_require(authority, info))
        ELSE \E risk_score \in update_protocol_risk_score(info, code_risk_params,
                                   economic_risk_params, operational_risk_params) :
                IF risk_score = NoneU64 THEN Abort("update_protocol_risk", "Panic")
                ELSE /\ protocol_info' = [protocol_info EXCEPT
                                             ![pinfo].risk_score = risk_score]
                     /\ result' = Outcome("update_protocol_risk", "Ok")
                     /\ UNCHANGED <<now, protocol_state, registry, policy, claim,
                                    capital_pool, capital_provider, tokens>>

NextRisk ==
    \/ \E u \in Users : initialize(u)
    \/ \E u \in ProtocolKeys, v \in RiskTvlInputs : register_protocol(u, v)
    \/ \E u \in Users, p \in ProtocolKeys, c \in CodeRiskParams,
          e \in EconomicRiskParams, o \in OperationalRiskParams :
          update_protocol_risk(u, p, c, e, o)
    \/ \E c \in ComponentValues, e \in ComponentValues, o \in ComponentValues :
          call_calculate_composite_risk_score(c, e, o)

\* The registry and the composite risk score, with any user as the authority
\* that initialises the program.
SpecRisk == Init /\ [][NextRisk]_vars

\* The functions of risk_assessment.rs keep no state: a behaviour applies one
\* of them to one input.
NextScoring ==
    \/ \E a \in AuditCounts, b \in BountySizes, c \in ComplexityScores :
          result.op = "none" /\ call_assess_code_risk(a, b, c)
    \/ \E t \in TvlValues, l \in LiquidityDepths, c \in ConcentrationRisks :
          result.op = "none" /\ call_assess_economic_risk(t, l, c)
    \/ \E g \in GovernanceCounts, a \in AdminCounts, o \in BOOLEAN :
          result.op = "none" /\ call_assess_operational_risk(g, a, o)
    \/ \E s \in RiskScores :
          result.op = "none" /\ call_calculate_premium_rate(s)
    \/ \E c \in CoverageAmounts, r \in PremiumRates, d \in DurationDays :
          result.op = "none" /\ call_calculate_premium_amount(c, r, d)

\* The risk functions and the premium functions over their inputs.
SpecScoring == Init /\ [][NextScoring]_vars

\* No account exists yet; every user may come to register a protocol.
InitRegistry ==
    /\ now = 0
    /\ protocol_state = ZeroProtocolState
    /\ registry = ZeroRegistry
    /\ protocol_info = [u \in Users |-> ZeroProtocolInfo]
    /\ policy = [k \in PolicyKeys |-> ZeroPolicy]
    /\ claim = [k \in PolicyKeys |-> ZeroClaim]
    /\ capital_pool = [t \in PoolTypes |-> ZeroCapitalPool]
    /\ capital_provider = [k \in ProviderKeys |-> ZeroCapitalProvider]
    /\ user_token = [u \in Users |-> InitialUnits * AmountUnit]
    /\ pool_token_account = [t \in PoolTypes |-> 0]
    /\ treasury_token = 0
    /\ result = Outcome("none", "Ok")

NextRegistry ==
    \/ \E u \in Users : initialize(u)
    \/ \E u \in Users, v \in RiskTvlInputs : register_protocol(u, v)
    \/ \E u \in Users, p \in Users, c \in CodeRiskParams,
          e \in EconomicRiskParams, o \in OperationalRiskParams :
          update_protocol_risk(u, p, c, e, o)

\* The registry, with every user the authority of a protocol of their own.
SpecRegistry == InitRegistry /\ [][NextRegistry]_vars

\* ------------------------------------------------------------ properties
\* An error a property names is the error of a call that gets as far as the
\* check raising it; a call stopped by an earlier check returns that check's
\* error.  A step of the model is recognised as a call op(args) by the action
\* formula op(args) itself.

PoolBalanced(pool) ==
    /\ pool.total_capital = pool.available_capital + pool.reserved_capital
    /\ pool.available_capital <= pool.total_capital

NoApproval == \A k \in PolicyKeys : claim[k].status # CLAIM_STATUS_APPROVED

\* C1: as long as no claim has been approved, every pool has total_capital =
\* available_capital + reserved_capital and available_capital <= total_capital,
\* whatever deposits and withdrawals succeeded or failed.
C1_BalancedBeforeApproval ==
    NoApproval => \A t \in PoolTypes : PoolBalanced(capital_pool[t])

C1_Witness ==
    /\ NoApproval
    /\ result = Outcome("withdraw_capital", "Ok")
    /\ \E t \in PoolTypes : capital_pool[t].total_capital > 0

\* C2: in every reachable state, also after claim approvals and the deposits
\* and withdrawals that follow them, every pool has total_capital =
\* available_capital + reserved_capital and available_capital <= total_capital.
C2_BalancedAlways ==
    \A t \in PoolTypes : PoolBalanced(capital_pool[t])

C2_Witness ==
    /\ result = Outcome("withdraw_capital", "Ok")
    /\ \E t \in PoolTypes : /\ capital_pool[t].reserved_capital > 0
                            /\ capital_pool[t].available_capital = 0
                            /\ capital_pool[t].total_capital > 0

\* The errors C3 names for a withdrawal of amount.
C3_NamedErrors(provider, pool, amount) ==
    (IF amount > provider.capital_amount
     THEN {"InsufficientProviderCapital"} ELSE {})
    \cup (IF amount > pool.available_capital
          THEN {"InsufficientPoolCapital"} ELSE {})

\* C3: a withdraw_capital of more than the provider's capital_amount or more
\* than the pool's available_capital never succeeds: it fails with
\* InsufficientProviderCapital or InsufficientPoolCapital (the error of a
\* check the amount violates), and the pool, the provider record (with its
\* rewards_earned) and every other account and token balance stay as they were.
C3_WithdrawBeyondCapitalFails ==
    [][\A u \in Users, t \in PoolTypes, a \in Amounts :
        LET provider == capital_provider[<<u, t>>]
            pool == capital_pool[t]
        IN  (/\ provider.live /\ pool.live
             /\ C3_NamedErrors(provider, pool, a) # {}
             /\ withdraw_capital(u, t, a))
            => /\ result'.err \in C3_NamedErrors(provider, pool, a)
               /\ capital_pool' = capital_pool
               /\ capital_provider' = capital_provider
               /\ UNCHANGED <<accounts, tokens>>]_vars

\* A withdrawal failed on the provider's capital while the yield the call had
\* already credited (line 136) was not zero.
C3_Witness ==
    /\ result = Outcome("withdraw_capital", "InsufficientProviderCapital")
    /\ \E k \in ProviderKeys :
          /\ capital_provider[k].live
          /\ capital_provider[k].capital_amount < MaxUnits * AmountUnit
          /\ capital_provider[k].rewards_earned = 0
          /\ withdraw_rewards(capital_provider[k], capital_pool[k[2]]) > 0

\* C4: an approving resolve_claim that succeeds lowers the pool's
\* available_capital by claim.amount, raises its reserved_capital by
\* claim.amount, leaves total_capital as it was, and moves claim.amount from the
\* pool's custody account to the claimant's token account.
C4_ApprovalMovesClaimAmount ==
    [][\A u \in Users, k \in PolicyKeys, p \in ProtocolKeys, t \in PoolTypes :
        (resolve_claim(u, k, p, t, TRUE) /\ result'.err = "Ok")
        => LET amount == claim[k].amount
               pool == capital_pool[t]
           IN  /\ capital_pool'[t].available_capital = pool.available_capital - amount
               /\ capital_pool'[t].reserved_capital = pool.reserved_capital + amount
               /\ capital_pool'[t].total_capital = pool.total_capital
               /\ pool_token_account'[t] = pool_token_account[t] - amount
               /\ user_token'[claim[k].claimant] = user_token[claim[k].claimant] + amount
               /\ \A v \in Users \ {claim[k].claimant} : user_token'[v] = user_token[v]
               /\ treasury_token' = treasury_token]_vars

C4_Witness ==
    /\ result = Outcome("resolve_claim", "Ok")
    /\ \E k \in PolicyKeys, t \in PoolTypes :
          /\ claim[k].status = CLAIM_STATUS_APPROVED
          /\ claim[k].amount > 0
          /\ claim[k].resolution_time = now
          /\ capital_pool[t].reserved_capital = claim[k].amount
          /\ capital_pool[t].available_capital > 0

\* C5: a claim record is created with status Pending, and once its status is
\* Approved or Rejected the record never changes again: every resolve_claim on
\* a claim that is not Pending fails and alters no account and no balance; the
\* error is ClaimAlreadyResolved, the check of lines 88-89, for every call that
\* passes account validation and the resolver check of lines 82-86.
C5_StatusChangesOnce ==
    [][/\ \A k \in PolicyKeys :
            /\ (~claim[k].live /\ claim'[k].live)
                  => claim'[k].status = CLAIM_STATUS_PENDING
            /\ (claim[k].live /\ claim'[k].status # claim[k].status)
                  => /\ claim[k].status = CLAIM_STATUS_PENDING
                     /\ claim'[k].status \in {CLAIM_STATUS_APPROVED, CLAIM_STATUS_REJECTED}
            /\ (claim[k].live /\ claim[k].status # CLAIM_STATUS_PENDING)
                  => claim'[k] = claim[k]
       /\ \A u \in Users, k \in PolicyKeys, p \in ProtocolKeys, t \in PoolTypes,
             approve \in BOOLEAN :
            (/\ claim[k].live
             /\ claim[k].status # CLAIM_STATUS_PENDING
             /\ resolve_claim(u, k, p, t, approve))
            => /\ result'.err # "Ok"
               /\ (/\ ResolveClaim_err(k, p, t) = "Ok"
                   /\ u = protocol_info[p].authority)
                     => result'.err = "ClaimAlreadyResolved"
               /\ claim' = claim /\ policy' = policy /\ capital_pool' = capital_pool
               /\ UNCHANGED <<accounts, tokens>>]_vars

\* A second resolution of a resolved claim was refused.
C5_Witness ==
    /\ result = Outcome("resolve_claim", "ClaimAlreadyResolved")
    /\ \E k \in PolicyKeys :
          /\ claim[k].live
          /\ claim[k].status \in {CLAIM_STATUS_APPROVED, CLAIM_STATUS_REJECTED}
          /\ claim[k].resolution_time < now

\* C6: available_capital of a pool is never negative.  A withdraw_capital or an
\* approving resolve_claim succeeds only with an amount the pool's
\* available_capital covers and lowers available_capital by that amount, so of
\* a withdrawal and an approval whose amounts together exceed available_capital,
\* once one has succeeded the other fails on the pool that is left.
C6_NoOverdraw ==
    [][\A t \in PoolTypes :
        /\ capital_pool[t].available_capital >= 0
        /\ capital_pool'[t].available_capital >= 0
        /\ \A u \in Users, a \in Amounts :
             (withdraw_capital(u, t, a) /\ result'.err = "Ok")
             => /\ a <= capital_pool[t].available_capital
                /\ capital_pool'[t].available_capital =
                      capital_pool[t].available_capital - a
                /\ \A r \in Users, k \in PolicyKeys, p \in ProtocolKeys :
                      (a + claim[k].amount > capital_pool[t].available_capital)
                      => (resolve_claim_err(r, k, p, t, TRUE))' # "Ok"
        /\ \A r \in Users, k \in PolicyKeys, p \in ProtocolKeys :
             (resolve_claim(r, k, p, t, TRUE) /\ result'.err = "Ok")
             => /\ claim[k].amount <= capital_pool[t].available_capital
                /\ capital_pool'[t].available_capital =
                      capital_pool[t].available_capital - claim[k].amount
                /\ \A u \in Users, a \in Amounts :
                      (a + claim[k].amount > capital_pool[t].available_capital)
                      => (withdraw_capital_err(u, t, a))' # "Ok"]_vars

\* An approval succeeded, and the withdrawal of a provider's whole capital,
\* which the pool covered before the approval, now fails on the pool.
C6_Witness ==
    /\ result = Outcome("resolve_claim", "Ok")
    /\ \E k \in PolicyKeys, u \in Users, t \in PoolTypes :
          LET provider == capital_provider[<<u, t>>]
              pool == capital_pool[t]
          IN  /\ claim[k].status = CLAIM_STATUS_APPROVED
              /\ claim[k].amount > 0
              /\ claim[k].resolution_time = now
              /\ provider.live
              /\ provider.capital_amount <= pool.available_capital + claim[k].amount
              /\ provider.capital_amount > pool.available_capital
              /\ withdraw_capital_err(u, t, provider.capital_amount)
                    = "InsufficientPoolCapital"

\* C7: an approving resolve_claim for a claim whose amount exceeds the pool's
\* available_capital fails and changes no account and no balance: a Pending
\* claim stays Pending with resolution_time, resolver and notes unset,
\* policy.is_claimed stays false, the pool is as before, and the claim can still
\* be resolved (a rejection by the same resolver succeeds next).  The error is
\* InsufficientPoolCapital, the check of lines 104-108, for every call that
\* passes account validation and the checks of lines 82-89.
C7_ApprovalBeyondPoolFails ==
    [][\A u \in Users, k \in PolicyKeys, p \in ProtocolKeys, t \in PoolTypes :
        (/\ claim[k].live /\ capital_pool[t].live
         /\ claim[k].amount > capital_pool[t].available_capital
         /\ resolve_claim(u, k, p, t, TRUE))
        => /\ result'.err # "Ok"
           /\ claim' = claim /\ policy' = policy /\ capital_pool' = capital_pool
           /\ UNCHANGED <<accounts, tokens>>
           /\ (/\ ResolveClaim_err(k, p, t) = "Ok"
               /\ resolve_claim_require(u, p, claim[k]) = "Ok")
                 => /\ result'.err = "InsufficientPoolCapital"
                    /\ claim'[k].status = CLAIM_STATUS_PENDING
                    /\ claim'[k].resolution_time = 0
                    /\ claim'[k].resolver = NoKey
                    /\ claim'[k].resolution_notes = ""
                    /\ ~policy'[k].is_claimed
                    /\ (resolve_claim_err(u, k, p, t, FALSE))' = "Ok"]_vars

C7_Witness ==
    /\ result = Outcome("resolve_claim", "InsufficientPoolCapital")
    /\ \E k \in PolicyKeys :
          /\ claim[k].status = CLAIM_STATUS_PENDING
          /\ claim[k].amount > 0
          /\ claim[k].resolver = NoKey
          /\ ~policy[k].is_claimed

\* The errors C8 names for a submit_claim on the policy pol.
C8_NamedErrors(pol) ==
    (IF ~pol.is_active THEN {"PolicyNotActive"} ELSE {})
    \cup (IF now >= pol.end_time THEN {"PolicyExpired"} ELSE {})
    \cup (IF pol.is_claimed THEN {"PolicyAlreadyClaimed"} ELSE {})

\* C8 as stated: a submit_claim by the insured on a policy that is inactive,
\* expired or already claimed fails with PolicyNotActive, PolicyExpired or
\* PolicyAlreadyClaimed (an error whose condition holds) and creates no claim
\* record.  Calls on a policy whose claim record is Pending or Rejected are
\* left aside.
C8_AsStated ==
    [][\A u \in Users, k \in PolicyKeys, a \in Amounts :
        (/\ policy[k].live
         /\ u = policy[k].insured
         /\ policy[k].is_claimed \/ ~claim[k].live
         /\ C8_NamedErrors(policy[k]) # {}
         /\ submit_claim(u, k, a))
        => /\ result'.err \in C8_NamedErrors(policy[k])
           /\ claim' = claim]_vars

\* C8, amended: a submit_claim that passes account validation fails with
\* PolicyNotActive when is_active is false and otherwise with PolicyExpired when
\* now >= end_time, exactly at end_time included; a submit_claim on a policy
\* whose is_claimed is true fails at the creation of the claim record
\* (AccountAlreadyInUse: the approved claim occupies the address), never with
\* PolicyAlreadyClaimed; in each case the claim records stay as they were.
C8_RejectedSubmissions ==
    [][\A u \in Users, k \in PolicyKeys, a \in Amounts :
        (policy[k].live /\ submit_claim(u, k, a))
        => /\ (SubmitClaim_err(u, k) = "Ok" /\ ~policy[k].is_active)
                => result'.err = "PolicyNotActive" /\ claim' = claim
           /\ (/\ SubmitClaim_err(u, k) = "Ok" /\ policy[k].is_active
               /\ now >= policy[k].end_time)
                => result'.err = "PolicyExpired" /\ claim' = claim
           /\ policy[k].is_claimed
                => result'.err = "AccountAlreadyInUse" /\ claim' = claim
           /\ result'.err # "PolicyAlreadyClaimed"]_vars

\* A claim was refused on a policy that is already claimed.
C8_Witness ==
    /\ result = Outcome("submit_claim", "AccountAlreadyInUse")
    /\ \E k \in PolicyKeys : /\ policy[k].is_claimed
                             /\ now < policy[k].end_time
                             /\ claim[k].status = CLAIM_STATUS_APPROVED

\* A claim was refused as expired at the very second the policy ends.
C8_ExpiredAtEndTime ==
    /\ result = Outcome("submit_claim", "PolicyExpired")
    /\ \E k \in PolicyKeys : policy[k].live /\ now = policy[k].end_time

\* C9 as stated: a submit_claim by anyone but the insured fails with
\* UnauthorizedClaim, one by the insured for more than coverage_amount on an
\* active, unexpired, unclaimed policy fails with ExcessClaimAmount, and every
\* claim record has claimant = policy.insured and amount <= coverage_amount.
\* Calls on a policy that already has a claim record are left aside.
C9_AsStated ==
    [][/\ \A u \in Users, k \in PolicyKeys, a \in Amounts :
            (policy[k].live /\ ~claim[k].live /\ submit_claim(u, k, a))
            => /\ (u # policy[k].insured) => result'.err = "UnauthorizedClaim"
               /\ (/\ u = policy[k].insured /\ C8_NamedErrors(policy[k]) = {}
                   /\ a > policy[k].coverage_amount)
                     => result'.err = "ExcessClaimAmount"
       /\ \A k \in PolicyKeys :
            claim'[k].live => /\ claim'[k].claimant = policy'[k].insured
                              /\ claim'[k].amount <= policy'[k].coverage_amount]_vars

\* C9, amended: a submit_claim by anyone but the insured fails at account
\* validation (the seeds and the constraint of the policy account, or the
\* creation of a claim record that exists), never with UnauthorizedClaim; one
\* that reaches the check of line 56 with amount > coverage_amount fails with
\* ExcessClaimAmount; neither creates or changes a claim record, and every
\* claim record has claimant = policy.insured and amount <= coverage_amount.
C9_ClaimantAndAmount ==
    [][/\ \A u \in Users, k \in PolicyKeys, a \in Amounts :
            (policy[k].live /\ submit_claim(u, k, a))
            => /\ (u # policy[k].insured)
                     => /\ result'.err = (IF claim[k].live THEN "AccountAlreadyInUse"
                                          ELSE "ConstraintSeeds")
                        /\ claim' = claim
               /\ (/\ SubmitClaim_err(u, k) = "Ok" /\ C8_NamedErrors(policy[k]) = {}
                   /\ a > policy[k].coverage_amount)
                     => result'.err = "ExcessClaimAmount" /\ claim' = claim
               /\ result'.err # "UnauthorizedClaim"
       /\ \A k \in PolicyKeys :
            claim'[k].live => /\ policy'[k].live
                              /\ claim'[k].policy = k
                              /\ claim'[k].claimant = policy'[k].insured
                              /\ claim'[k].amount <= policy'[k].coverage_amount]_vars

\* A stranger's claim was refused while the policy was open to a claim.
C9_Witness ==
    /\ result = Outcome("submit_claim", "ConstraintSeeds")
    /\ \E k \in PolicyKeys : /\ policy[k].live /\ ~claim[k].live
                             /\ now < policy[k].end_time

\* A claim above the coverage was refused.
C9_ExcessRefused ==
    /\ result = Outcome("submit_claim", "ExcessClaimAmount")
    /\ \E k \in PolicyKeys : policy[k].live /\ ~claim[k].live

\* C10: a policy has at most one claim record, and a submit_claim on a policy
\* whose claim is Pending fails at the creation of the record
\* (AccountAlreadyInUse) and leaves every claim record as it was.
C10_OneClaimPerPolicy ==
    [][/\ \A k \in PolicyKeys :
            Cardinality({j \in PolicyKeys : claim'[j].live /\ claim'[j].policy = k}) <= 1
       /\ \A u \in Users, k \in PolicyKeys, a \in Amounts :
            (/\ policy[k].live /\ claim[k].live
             /\ claim[k].status = CLAIM_STATUS_PENDING
             /\ submit_claim(u, k, a))
            => /\ result'.err = "AccountAlreadyInUse"
               /\ claim' = claim]_vars

\* A second claim was refused while the first is Pending.
C10_Witness ==
    /\ result = Outcome("submit_claim", "AccountAlreadyInUse")
    /\ \E k \in PolicyKeys : /\ claim[k].live
                             /\ claim[k].status = CLAIM_STATUS_PENDING
                             /\ now < policy[k].end_time

C12_RejectionTouchesClaimOnly ==
    [][\A u \in Users, k \in PolicyKeys, p \in ProtocolKeys, t \in PoolTypes :
        (resolve_claim(u, k, p, t, FALSE) /\ result'.err = "Ok")
        => /\ claim'[k].status = CLAIM_STATUS_REJECTED
           /\ claim'[k].resolution_time = now
           /\ claim'[k].resolver = u
           /\ claim'[k].live = claim[k].live
           /\ claim'[k].policy = claim[k].policy
           /\ claim'[k].claimant = claim[k].claimant
           /\ claim'[k].amount = claim[k].amount
           /\ claim'[k].submitted_time = claim[k].submitted_time
           /\ \A j \in PolicyKeys \ {k} : claim'[j] = claim[j]
           /\ policy' = policy
           /\ capital_pool' = capital_pool
           /\ capital_provider' = capital_provider
           /\ pool_token_account' = pool_token_account
           /\ user_token' = user_token
           /\ treasury_token' = treasury_token
           /\ UNCHANGED <<now, protocol_state, registry, protocol_info>>]_vars

\* A claim the pool could have paid was rejected.
C12_Witness ==
    /\ result = Outcome("resolve_claim", "Ok")
    /\ \E k \in PolicyKeys, t \in PoolTypes :
          /\ claim[k].status = CLAIM_STATUS_REJECTED
          /\ claim[k].resolution_time = now
          /\ claim[k].amount > 0
          /\ ~policy[k].is_claimed
          /\ capital_pool[t].available_capital >= claim[k].amount
          /\ capital_pool[t].reserved_capital = 0

\* C13: a withdraw_capital that succeeds with amount = capital_amount retires
\* the provider record: the address holds no live record and every field,
\* rewards_earned included, is zero.  One that succeeds with a smaller amount
\* keeps the record, with its owner, its pool and its original deposit_time,
\* and with capital_amount lowered by amount.
C13_FullWithdrawalRetires ==
    [][\A u \in Users, t \in PoolTypes, a \in Amounts :
        LET provider == capital_provider[<<u, t>>]
        IN  (withdraw_capital(u, t, a) /\ result'.err = "Ok")
            => /\ (a = provider.capital_amount)
                    => /\ ~capital_provider'[<<u, t>>].live
                       /\ capital_provider'[<<u, t>>].rewards_earned = 0
                       /\ capital_provider'[<<u, t>>].capital_amount = 0
                       /\ capital_provider'[<<u, t>>] = ZeroCapitalProvider
               /\ (a # provider.capital_amount)
                    => /\ capital_provider'[<<u, t>>].live
                       /\ capital_provider'[<<u, t>>].capital_amount
                             = provider.capital_amount - a
                       /\ capital_provider'[<<u, t>>].capital_amount > 0
                       /\ capital_provider'[<<u, t>>].deposit_time = provider.deposit_time
                       /\ capital_provider'[<<u, t>>].owner = provider.owner
                       /\ capital_provider'[<<u, t>>].pool = provider.pool
               /\ \A k \in ProviderKeys \ {<<u, t>>} :
                     capital_provider'[k] = capital_provider[k]]_vars

\* A withdrawal succeeded and left no live provider record: the record it was
\* made from is retired.
C13_Witness ==
    /\ result = Outcome("withdraw_capital", "Ok")
    /\ now > 0
    /\ \A k \in ProviderKeys : capital_provider[k] = ZeroCapitalProvider
    /\ \E t \in PoolTypes : capital_pool[t].live /\ capital_pool[t].total_capital = 0

\* A partial withdrawal, made a day after the deposit, left the record live.
C13_PartialKeepsRecord ==
    /\ result = Outcome("withdraw_capital", "Ok")
    /\ \E k \in ProviderKeys : /\ capital_provider[k].live
                               /\ capital_provider[k].capital_amount > 0
                               /\ capital_provider[k].rewards_earned > 0
                               /\ capital_provider[k].deposit_time > 0
                               /\ capital_provider[k].deposit_time < now

\* C14 as stated: a provide_capital by an owner whose record in the pool is
\* live, for an amount the owner holds, succeeds, raises the record's
\* capital_amount by amount and raises the pool's total_capital and
\* available_capital by amount each.
C14_AsStated ==
    [][\A u \in Users, t \in PoolTypes, a \in Amounts :
        (/\ capital_pool[t].live
         /\ capital_provider[<<u, t>>].live
         /\ user_token[u] >= a
         /\ provide_capital(u, t, a))
        => /\ result'.err = "Ok"
           /\ capital_provider'[<<u, t>>].capital_amount
                 = capital_provider[<<u, t>>].capital_amount + a
           /\ capital_pool'[t].total_capital = capital_pool[t].total_capital + a
           /\ capital_pool'[t].available_capital
                 = capital_pool[t].available_capital + a]_vars

\* C14, amended: a provide_capital that succeeds creates the provider record,
\* with capital_amount = amount, rewards_earned = 0 and deposit_time = now, and
\* raises the pool's total_capital and available_capital by amount each; it
\* succeeds only when the owner has no live record in the pool.  A
\* provide_capital by an owner whose record is live fails at the creation of the
\* record (AccountAlreadyInUse) and changes no account and no balance: a live
\* record is never credited.
C14_DepositCreatesRecordOnce ==
    [][\A u \in Users, t \in PoolTypes, a \in Amounts :
        provide_capital(u, t, a)
        => /\ result'.err = "Ok"
                => /\ ~capital_provider[<<u, t>>].live
                   /\ capital_provider'[<<u, t>>].live
                   /\ capital_provider'[<<u, t>>].owner = u
                   /\ capital_provider'[<<u, t>>].pool = t
                   /\ capital_provider'[<<u, t>>].capital_amount = a
                   /\ capital_provider'[<<u, t>>].rewards_earned = 0
                   /\ capital_provider'[<<u, t>>].deposit_time = now
                   /\ capital_pool'[t].total_capital = capital_pool[t].total_capital + a
                   /\ capital_pool'[t].available_capital
                         = capital_pool[t].available_capital + a
                   /\ capital_pool'[t].reserved_capital = capital_pool[t].reserved_capital
                   /\ pool_token_account'[t] = pool_token_account[t] + a
                   /\ user_token'[u] = user_token[u] - a
           /\ capital_provider[<<u, t>>].live
                => /\ result'.err = "AccountAlreadyInUse"
                   /\ capital_provider' = capital_provider
                   /\ capital_pool' = capital_pool
                   /\ UNCHANGED <<accounts, tokens>>]_vars

\* A second deposit was refused though the owner's record is live and the
\* owner holds tokens to deposit.
C14_Witness ==
    /\ result = Outcome("provide_capital", "AccountAlreadyInUse")
    /\ \E k \in ProviderKeys : /\ capital_provider[k].live
                               /\ capital_provider[k].capital_amount > 0
                               /\ user_token[k[1]] >= AmountUnit
                               /\ capital_pool[k[2]].available_capital
                                     >= capital_provider[k].capital_amount

\* The yield computation of a withdrawal overflows the word.
C15_YieldOverflows(provider, pool) ==
    \/ provider.capital_amount * pool.yield_rate_bps > WordMax
    \/ NoneU64 \in withdraw_rewards_u64(provider, pool)

\* C15: whenever a step of the arithmetic of provide_capital or
\* withdraw_capital would exceed the unsigned range (the sums of the pool, the
\* products capital_amount * yield_rate_bps and daily_yield * days_held, the
\* sum credited to rewards_earned), the operation fails and no account and no
\* balance changes.
C15_OverflowAborts ==
    [][\A u \in Users, t \in PoolTypes, a \in WordAmounts :
        LET provider == capital_provider[<<u, t>>]
            pool == capital_pool[t]
        IN  /\ (/\ pool.live /\ ~provider.live
                /\ pool.total_capital + a > WordMax
                /\ provide_capital_u64(u, t, a))
               => result'.err # "Ok" /\ UNCHANGED <<accounts, tokens>>
            /\ (/\ pool.live /\ provider.live
                /\ C15_YieldOverflows(provider, pool)
                /\ withdraw_capital_u64(u, t, a))
               => result'.err # "Ok" /\ UNCHANGED <<accounts, tokens>>]_vars

\* The checked steps alone: a deposit whose sum exceeds the word fails with the
\* panic of unwrap() and changes nothing.
C15_CheckedSumAborts ==
    [][\A u \in Users, t \in PoolTypes, a \in WordAmounts :
        (/\ capital_pool[t].live /\ ~capital_provider[<<u, t>>].live
         /\ capital_pool[t].total_capital + a > WordMax
         /\ provide_capital_u64(u, t, a))
        => result'.err = "Panic" /\ UNCHANGED <<accounts, tokens>>]_vars

\* A deposit was refused by the panic of a checked sum.
C15_CheckedSumReached ==
    result = Outcome("provide_capital", "Panic")

\* The case of C16: a record of 1_000_000 in a pool of 500 bps, held for
\* exactly two days.
C16_Case(provider, pool) ==
    /\ provider.live /\ pool.live
    /\ provider.capital_amount = 1000000
    /\ pool.yield_rate_bps = 500
    /\ now - provider.deposit_time = 2 * SECONDS_PER_DAY

\* C16 as stated: a withdrawal that succeeds on a record of 1_000_000 in a pool
\* of 500 bps, exactly two days after the deposit, and keeps the record, adds
\* exactly 274 to rewards_earned.
C16_AsStated ==
    [][\A u \in Users, t \in PoolTypes, a \in Amounts :
        (/\ C16_Case(capital_provider[<<u, t>>], capital_pool[t])
         /\ a < capital_provider[<<u, t>>].capital_amount
         /\ withdraw_capital(u, t, a) /\ result'.err = "Ok")
        => capital_provider'[<<u, t>>].rewards_earned
              = capital_provider[<<u, t>>].rewards_earned + 274]_vars

\* C16, amended: the reward of that withdrawal is exactly 272
\* (1_000_000 * 500 div 10000 = 50000, 50000 div 365 = 136, 136 * 2 = 272): a
\* withdrawal that keeps the record adds 272 to rewards_earned.
C16_RewardAfterTwoDays ==
    [][\A u \in Users, t \in PoolTypes, a \in Amounts :
        (/\ C16_Case(capital_provider[<<u, t>>], capital_pool[t])
         /\ withdraw_capital(u, t, a) /\ result'.err = "Ok")
        => /\ withdraw_rewards(capital_provider[<<u, t>>], capital_pool[t]) = 272
           /\ (a < capital_provider[<<u, t>>].capital_amount)
                 => capital_provider'[<<u, t>>].rewards_earned
                       = capital_provider[<<u, t>>].rewards_earned + 272]_vars

\* Two days after a deposit of 1_000_000 a withdrawal has credited its reward
\* to a record that had none.
C16_Witness ==
    /\ result = Outcome("withdraw_capital", "Ok")
    /\ \E k \in ProviderKeys :
          /\ C16_Case(capital_provider[k], capital_pool[k[2]])
          /\ capital_provider[k].deposit_time = 0
          /\ capital_provider[k].rewards_earned = 272

\* The reward C17 states, from the principal, the rate and the two times.
C17_Reward(capital_amount, yield_rate_bps, deposit_time, time) ==
    LET whole_days == (time - deposit_time) \div 86400
        days_held == IF whole_days >= 1 THEN whole_days ELSE 1
    IN  (((capital_amount * yield_rate_bps) \div 10000) \div 365) * days_held

\* C17: every withdraw_capital that succeeds credits the reward
\* ((capital_amount * yield_rate_bps div 10000) div 365) * days_held, with the
\* principal before the withdrawal and days_held = max(floor((now -
\* deposit_time) / 86400), 1): a record that stays live has rewards_earned
\* raised by exactly that reward (a record the withdrawal empties is retired
\* with its fields zeroed).  The transfer moves exactly amount from the pool's
\* custody to the owner, never amount plus the reward.
C17_RewardAndTransfer ==
    [][\A u \in Users, t \in PoolTypes, a \in Amounts :
        LET provider == capital_provider[<<u, t>>]
            pool == capital_pool[t]
            reward == C17_Reward(provider.capital_amount, pool.yield_rate_bps,
                                 provider.deposit_time, now)
        IN  (withdraw_capital(u, t, a) /\ result'.err = "Ok")
            => /\ withdraw_rewards(provider, pool) = reward
               /\ capital_provider'[<<u, t>>].live
                     => capital_provider'[<<u, t>>].rewards_earned
                           = provider.rewards_earned + reward
               /\ ~capital_provider'[<<u, t>>].live
                     => a = provider.capital_amount
               /\ pool_token_account'[t] = pool_token_account[t] - a
               /\ user_token'[u] = user_token[u] + a
               /\ \A v \in Users \ {u} : user_token'[v] = user_token[v]
               /\ treasury_token' = treasury_token]_vars

\* A withdrawal on the day of the deposit credited the reward of one day, and
\* the owner's tokens and principal add up to what the owner had: no reward
\* was paid out.
C17_Witness ==
    /\ result = Outcome("withdraw_capital", "Ok")
    /\ \E k \in ProviderKeys :
          /\ capital_provider[k].live
          /\ capital_provider[k].deposit_time = now
          /\ capital_provider[k].capital_amount > 0
          /\ capital_provider[k].rewards_earned
                = C17_Reward(capital_provider[k].capital_amount + AmountUnit,
                             capital_pool[k[2]].yield_rate_bps, now, now)
          /\ capital_provider[k].rewards_earned > 0
          /\ user_token[k[1]] + capital_provider[k].capital_amount
                = InitialUnits * AmountUnit

\* The three factors the specification gives each risk function, as a sum in
\* unbounded integers.
C18_CodeFactors(audit_count, bug_bounty_size, complexity_score) ==
    (100 - 20 * Min(audit_count, 5))
    + (CASE bug_bounty_size = 0 -> 100
         [] bug_bounty_size \in 1..50000 -> 75
         [] bug_bounty_size \in 50001..250000 -> 50
         [] bug_bounty_size \in 250001..1000000 -> 25
         [] OTHER -> 0)
    + Min(complexity_score, 100)

C18_EconomicFactors(tvl_usd, liquidity_depth, concentration_risk) ==
    (CASE tvl_usd <= 1000000 -> 25
       [] tvl_usd \in 1000001..10000000 -> 50
       [] tvl_usd \in 10000001..100000000 -> 75
       [] OTHER -> 100)
    + (CASE liquidity_depth <= 100000 -> 100
         [] liquidity_depth \in 100001..1000000 -> 75
         [] liquidity_depth \in 1000001..10000000 -> 50
         [] OTHER -> 25)
    + concentration_risk

C18_OperationalFactors(governance_count, admin_count, oracle_dependency) ==
    (100 - 10 * Min(governance_count, 10))
    + (100 - 20 * Min(admin_count, 5))
    + (IF oracle_dependency THEN 100 ELSE 0)

C18_Factors ==
    CASE result.op = "assess_code_risk" ->
            C18_CodeFactors(result.args[1], result.args[2], result.args[3])
      [] result.op = "assess_economic_risk" ->
            C18_EconomicFactors(result.args[1], result.args[2], result.args[3])
      [] result.op = "assess_operational_risk" ->
            C18_OperationalFactors(result.args[1], result.args[2], result.args[3])

C18_Assessed ==
    result.op \in {"assess_code_risk", "assess_economic_risk",
                   "assess_operational_risk"}

\* C18: for every input, each of assess_code_risk, assess_economic_risk and
\* assess_operational_risk returns the truncated mean of its three factors,
\* a value between 0 and 100; assess_code_risk(5, 0, 0) returns 33.
C18_MeanOfFactors ==
    /\ C18_Assessed =>
          /\ result.err = "Ok"
          /\ result.value = C18_Factors \div 3
          /\ result.value \in 0..100
    /\ (result.op = "assess_code_risk" /\ result.args = <<5, 0, 0>>)
          => result.value = 33

\* What holds of every input: a call whose factors sum to at most 255 returns
\* their truncated mean, so assess_code_risk(5, 0, 0) returns 33; a call whose
\* factors sum to more panics or returns the mean of the sum modulo 256.
C18_MeanBelowOverflow ==
    /\ (C18_Assessed /\ C18_Factors <= 255) =>
          /\ result.err = "Ok"
          /\ result.value = C18_Factors \div 3
          /\ result.value \in 0..100
    /\ (C18_Assessed /\ C18_Factors > 255) =>
          \/ result.err = "Panic"
          \/ result.err = "Ok" /\ result.value = (C18_Factors % 256) \div 3
    /\ (result.op = "assess_code_risk" /\ result.args = <<5, 0, 0>>)
          => result.value = 33

\* assess_code_risk(0, 0, 100), whose factors are 100, 100 and 100, returned a
\* value that is not their mean.
C18_WrappedMean ==
    /\ result.op = "assess_code_risk"
    /\ result.args = <<0, 0, 100>>
    /\ result.err = "Ok"
    /\ result.value = 14

\* C19: the risk_score of every registered protocol lies between 0 and 100;
\* register_protocol sets it to 50; a successful update_protocol_risk sets it
\* to floor((30 * code + 40 * economic + 30 * operational) / 100) of the three
\* components assessed from its parameters and the stored TVL; the components
\* 30, 100 and 0 give 49.
C19_RiskScoreInRange ==
    /\ [](\A p \in ProtocolKeys :
            protocol_info[p].live => protocol_info[p].risk_score \in 0..100)
    /\ [][\A u \in ProtocolKeys, v \in RiskTvlInputs :
            (register_protocol(u, v) /\ result'.err = "Ok")
            => protocol_info'[u].live /\ protocol_info'[u].risk_score = 50]_vars
    /\ [][\A u \in Users, p \in ProtocolKeys, c \in CodeRiskParams,
             e \in EconomicRiskParams, o \in OperationalRiskParams :
            (update_protocol_risk(u, p, c, e, o) /\ result'.err = "Ok")
            => \E code \in assess_code_risk(c.audit_count, c.bug_bounty_size,
                                            c.complexity_score) \ {NoneU64},
                  economic \in assess_economic_risk(protocol_info[p].tvl_usd,
                                  e.liquidity_depth, e.concentration_risk) \ {NoneU64},
                  operational \in assess_operational_risk(o.governance_count,
                                  o.admin_count, o.oracle_dependency) \ {NoneU64} :
                  protocol_info'[p].risk_score =
                      (30 * code + 40 * economic + 30 * operational) \div 100]_vars
    /\ []((/\ result.op = "calculate_composite_risk_score"
           /\ result.args = <<30, 100, 0>>) => result.value = 49)

\* A successful update_protocol_risk has moved a protocol's score from 50 to
\* 16: code risk 33, economic risk 16, operational risk 0.
C19_Witness ==
    /\ result = Outcome("update_protocol_risk", "Ok")
    /\ \E p \in ProtocolKeys :
          /\ protocol_info[p].live
          /\ protocol_info[p].tvl_usd = 0
          /\ protocol_info[p].risk_score = 16

\* The case of C20: the premium of a coverage of 1_000_000 at 50 bps for 30
\* days.
C20_Case ==
    /\ result.op = "calculate_premium_amount"
    /\ result.args = <<1000000, 50, 30>>

\* C20: calculate_premium_rate(49) is 50 bps, and
\* calculate_premium_amount(1_000_000, 50, 30) returns 410.
C20_AsStated ==
    /\ (result.op = "calculate_premium_rate" /\ result.args = <<49>>)
          => result.value = 50
    /\ C20_Case => result.value = 410

\* calculate_premium_rate(49) is 50 bps, and
\* calculate_premium_amount(1_000_000, 50, 30) returns 390: 5000 a year, 13 a
\* day after truncation, 13 * 30.
C20_PremiumOfThirtyDays ==
    /\ (result.op = "calculate_premium_rate" /\ result.args = <<49>>)
          => result.value = 50
    /\ C20_Case => result.err = "Ok" /\ result.value = 390

\* calculate_premium_amount(1_000_000, 50, 30) has returned 390.
C20_Witness ==
    C20_Case /\ result.value = 390

\* C21: a policy created at time t with duration d has start_time = t,
\* end_time = t + d * 86400, is_active = true and is_claimed = false; after
\* its creation no operation changes its insured, protocol, coverage_amount,
\* premium_amount, start_time, end_time or is_active; is_claimed changes at
\* most once, from false to true, and only through an approving resolve_claim.
C21_PolicyTermsFixed ==
    [][\A k \in PolicyKeys :
        /\ \A c \in Coverages, pr \in Premiums, d \in Durations :
              (create_policy(k[1], k[2], c, pr, d) /\ result'.err = "Ok")
              => /\ ~policy[k].live /\ policy'[k].live
                 /\ policy'[k].insured = k[1]
                 /\ policy'[k].protocol = k[2]
                 /\ policy'[k].coverage_amount = c
                 /\ policy'[k].premium_amount = pr
                 /\ policy'[k].start_time = now
                 /\ policy'[k].end_time = now + d * 86400
                 /\ policy'[k].is_active
                 /\ ~policy'[k].is_claimed
        /\ policy[k].live
           => /\ policy'[k] = [policy[k] EXCEPT !.is_claimed = policy'[k].is_claimed]
              /\ policy'[k].is_claimed # policy[k].is_claimed
                 => /\ ~policy[k].is_claimed
                    /\ policy'[k].is_claimed
                    /\ \E u \in Users, p \in ProtocolKeys, t \in PoolTypes :
                          resolve_claim(u, k, p, t, TRUE) /\ result'.err = "Ok"
              /\ policy[k].is_claimed => policy'[k].is_claimed]_vars

\* A policy bought one day after the start was paid out: its terms are those
\* of its creation and is_claimed is set.
C21_Witness ==
    \E k \in PolicyKeys :
        /\ policy[k].live
        /\ policy[k].start_time = SECONDS_PER_DAY
        /\ policy[k].end_time = 2 * SECONDS_PER_DAY
        /\ policy[k].is_active
        /\ policy[k].is_claimed
        /\ result = Outcome("resolve_claim", "Ok")

\* C22: register_protocol by an authority that already has a ProtocolInfo
\* record fails and leaves that record and the registry's protocol_count
\* unchanged; protocol_count always equals the number of ProtocolInfo records.
C22_NoSecondRegistration ==
    /\ [](registry.protocol_count
            = Cardinality({u \in Users : protocol_info[u].live}))
    /\ [][\A u \in Users, v \in RiskTvlInputs :
            (protocol_info[u].live /\ register_protocol(u, v))
            => /\ result'.err # "Ok"
               /\ protocol_info' = protocol_info
               /\ registry' = registry]_vars

\* Both users have a protocol; the first one's record, registered with a TVL
\* of 0 and rescored since, has just been refused a second registration.
C22_Witness ==
    /\ result = Outcome("register_protocol", "AccountAlreadyInUse")
    /\ registry.protocol_count = 2
    /\ protocol_info[1].live /\ protocol_info[1].tvl_usd = 0
    /\ protocol_info[1].risk_score # DEFAULT_RISK_SCORE

\* The sum of capital_amount over the live provider records of a pool.
RECURSIVE C23_SumOver(_, _)
C23_SumOver(owners, pool_type) ==
    IF owners = {} THEN 0
    ELSE LET u == CHOOSE x \in owners : TRUE
             provider == capital_provider[<<u, pool_type>>]
         IN  (IF provider.live THEN provider.capital_amount ELSE 0)
             + C23_SumOver(owners \ {u}, pool_type)

\* C23: in every reachable state, for every pool, the sum of capital_amount
\* over all live provider records of that pool equals pool.total_capital.
C23_ProvidersSumToTotal ==
    \A t \in PoolTypes : C23_SumOver(Users, t) = capital_pool[t].total_capital

\* Two providers hold different amounts in a pool out of which a claim has
\* been paid.
C23_Witness ==
    \E t \in PoolTypes :
        /\ capital_provider[<<1, t>>].live /\ capital_provider[<<2, t>>].live
        /\ capital_provider[<<1, t>>].capital_amount
             # capital_provider[<<2, t>>].capital_amount
        /\ capital_provider[<<1, t>>].capital_amount > 0
        /\ capital_provider[<<2, t>>].capital_amount > 0
        /\ capital_pool[t].reserved_capital > 0

\* C24: the custodial token balance of a pool, which only the transfers of
\* provide_capital, withdraw_capital and resolve_claim change, equals the
\* pool's available_capital in every reachable state, so total_capital
\* exceeds the custodial balance by exactly reserved_capital.
C24_CustodyIsAvailable ==
    \A t \in PoolTypes :
        /\ pool_token_account[t] = capital_pool[t].available_capital
        /\ capital_pool[t].total_capital - pool_token_account[t]
             = capital_pool[t].reserved_capital

\* A pool that has paid a claim and still holds capital: custody is below the
\* total by the amount reserved.
C24_Witness ==
    \E t \in PoolTypes :
        /\ capital_pool[t].reserved_capital > 0
        /\ pool_token_account[t] > 0
        /\ pool_token_account[t] < capital_pool[t].total_capital

\* C25: for every policy, what leaves pool custody for claims on it never
\* exceeds its coverage_amount and it is paid out at most once: a payout is
\* the amount of a Pending claim, at most the coverage; once the claim is
\* Approved or Rejected, every further submit_claim and resolve_claim on the
\* policy fails and moves no tokens.
C25_PaidOnceWithinCoverage ==
    [][\A k \in PolicyKeys :
        /\ \A u \in Users, p \in ProtocolKeys, t \in PoolTypes :
              (resolve_claim(u, k, p, t, TRUE) /\ result'.err = "Ok")
              => /\ claim[k].live /\ claim[k].status = CLAIM_STATUS_PENDING
                 /\ claim'[k].status = CLAIM_STATUS_APPROVED
                 /\ pool_token_account[t] - pool_token_account'[t] = claim[k].amount
                 /\ claim[k].amount <= policy[k].coverage_amount
                 /\ \A t2 \in PoolTypes \ {t} :
                       pool_token_account'[t2] = pool_token_account[t2]
        /\ (claim[k].live /\ claim[k].status # CLAIM_STATUS_PENDING)
           => /\ \A u \in Users, a \in Amounts :
                    submit_claim(u, k, a)
                    => result'.err # "Ok" /\ UNCHANGED <<accounts, tokens>>
              /\ \A u \in Users, p \in ProtocolKeys, t \in PoolTypes,
                    approve \in BOOLEAN :
                    resolve_claim(u, k, p, t, approve)
                    => result'.err # "Ok" /\ UNCHANGED <<accounts, tokens>>]_vars

\* A policy was paid its whole coverage and a second approval has just been
\* refused.
C25_Witness ==
    /\ result = Outcome("resolve_claim", "ClaimAlreadyResolved")
    /\ \E k \in PolicyKeys :
          /\ claim[k].live
          /\ claim[k].status = CLAIM_STATUS_APPROVED
          /\ claim[k].amount = policy[k].coverage_amount
          /\ user_token[k[1]] = InitialUnits * AmountUnit
                                  - policy[k].premium_amount + claim[k].amount

\* C26: in every reachable state a policy's is_claimed flag is true exactly
\* when the policy's claim record has status Approved; it is false when there
\* is no claim and when the claim is Pending or Rejected.
C26_ClaimedIffApproved ==
    \A k \in PolicyKeys :
        policy[k].is_claimed
          <=> (claim[k].live /\ claim[k].status = CLAIM_STATUS_APPROVED)

\* An approved claim on a policy marked as claimed.
C26_Witness ==
    \E k \in PolicyKeys :
        /\ policy[k].live /\ policy[k].is_claimed
        /\ claim[k].live /\ claim[k].status = CLAIM_STATUS_APPROVED
        /\ claim[k].policy = k

\* The yield of a principal over the time a record has been held so far.
C27_YieldSoFar(principal, provider, pool) ==
    (((principal * pool.yield_rate_bps) \div 10000) \div 365)
      * Max((now - provider.deposit_time) \div 86400, 1)

\* C27: for every live provider record, rewards_earned never exceeds the
\* yield of its deposited principal over the time held so far: withdrawals of
\* a part or of nothing do not accrue the yield of one holding period twice.
\* The principal of a record is the amount it was opened with, one of the
\* deposit amounts and at least the capital_amount it still holds.
C27_YieldAccruedOnce ==
    \A k \in ProviderKeys :
        capital_provider[k].live
        => \E principal \in Amounts :
              /\ principal >= capital_provider[k].capital_amount
              /\ capital_provider[k].rewards_earned
                   <= C27_YieldSoFar(principal, capital_provider[k],
                                     capital_pool[k[2]])

\* A record that still holds the largest deposit, opened at the current time,
\* has been credited the yield of a day twice: two withdrawals of nothing.
C27_AccruedTwice ==
    /\ result = Outcome("withdraw_capital", "Ok")
    /\ \E k \in ProviderKeys :
          /\ capital_provider[k].live
          /\ capital_provider[k].capital_amount = MaxUnits * AmountUnit
          /\ capital_provider[k].deposit_time = now
          /\ capital_provider[k].rewards_earned
               = 2 * C27_YieldSoFar(MaxUnits * AmountUnit, capital_provider[k],
                                    capital_pool[k[2]])
          /\ capital_provider[k].rewards_earned > 0

====
